---------------------------- MODULE Spec2Model ----------------------------
(***************************************************************************)
(* Plugin execution engine of the MCP server: PluginService (registry,     *)
(* loader, dispatcher, external invocation protocol) and the EventBus it   *)
(* announces plugin activity on.                                           *)
(*                                                                         *)
(* Text is a sequence of one-character strings.  A JavaScript value is a   *)
(* record with the same five fields whatever its type, so that any two     *)
(* values can be compared.                                                 *)
(***************************************************************************)
EXTENDS Integers, Sequences, FiniteSets, TLC

(***************************************************************************)
(* Bounds of the model.                                                    *)
(***************************************************************************)
MaxCalls == 2
MaxListeners == 1
MaxChunks == 2
MaxLoads == 2

(***************************************************************************)
(* JavaScript values.                                                      *)
(***************************************************************************)
JV(t, n, s, keys, kids) == [t |-> t, n |-> n, s |-> s, keys |-> keys, kids |-> kids]

Undefined == JV("undefined", 0, <<>>, <<>>, <<>>)
Null == JV("null", 0, <<>>, <<>>, <<>>)
JTrue == JV("true", 0, <<>>, <<>>, <<>>)
JFalse == JV("false", 0, <<>>, <<>>, <<>>)
JNum(n) == JV("number", n, <<>>, <<>>, <<>>)
JStr(s) == JV("string", 0, s, <<>>, <<>>)
JArr(kids) == JV("array", 0, <<>>, <<>>, kids)
JObj(keys, kids) == JV("object", 0, <<>>, keys, kids)

\* ToBoolean, as `||` applies it: undefined, null, false, 0 and "" are falsy.
Truthy(v) ==
  CASE v.t \in {"undefined", "null", "false"} -> FALSE
    [] v.t = "number" -> v.n # 0
    [] v.t = "string" -> v.s # <<>>
    [] OTHER -> TRUE

\* a || b
OrElse(a, b) == IF Truthy(a) THEN a ELSE b

(***************************************************************************)
(* Text.                                                                   *)
(***************************************************************************)
RECURSIVE Flatten(_)
\* Buffer.concat(chunks).toString('utf8')
Flatten(chunks) ==
  IF chunks = <<>> THEN <<>> ELSE Head(chunks) \o Flatten(Tail(chunks))

\* The white space String.prototype.trim strips, among the characters modelled.
TrimSpace == {" ", "\n", "\t", "\r"}

RECURSIVE TrimLeft(_)
TrimLeft(s) ==
  IF s # <<>> /\ Head(s) \in TrimSpace THEN TrimLeft(Tail(s)) ELSE s

RECURSIVE TrimRight(_)
TrimRight(s) ==
  IF s # <<>> /\ s[Len(s)] \in TrimSpace THEN TrimRight(SubSeq(s, 1, Len(s) - 1)) ELSE s

\* String.prototype.trim
trim(s) == TrimRight(TrimLeft(s))

StartsWith(s, lit) == Len(s) >= Len(lit) /\ SubSeq(s, 1, Len(lit)) = lit

Drop(s, k) == SubSeq(s, k + 1, Len(s))

(***************************************************************************)
(* JSON.stringify, for JSON-compatible values (integers for numbers).      *)
(***************************************************************************)
Digits == <<"0", "1", "2", "3", "4", "5", "6", "7", "8", "9">>

RECURSIVE NatText(_)
NatText(n) ==
  IF n < 10 THEN <<Digits[n + 1]>> ELSE NatText(n \div 10) \o <<Digits[(n % 10) + 1]>>

NumText(n) == IF n < 0 THEN <<"-">> \o NatText(0 - n) ELSE NatText(n)

EscapeChar(c) ==
  CASE c = "\"" -> <<"\\", "\"">>
    [] c = "\\" -> <<"\\", "\\">>
    [] c = "\n" -> <<"\\", "n">>
    [] c = "\t" -> <<"\\", "t">>
    [] c = "\r" -> <<"\\", "r">>
    [] OTHER -> <<c>>

RECURSIVE Escape(_)
Escape(s) == IF s = <<>> THEN <<>> ELSE EscapeChar(Head(s)) \o Escape(Tail(s))

Quote(s) == <<"\"">> \o Escape(s) \o <<"\"">>

RECURSIVE JSONstringify(_)
RECURSIVE StringifyElems(_)
RECURSIVE StringifyMembers(_, _)

StringifyElems(kids) ==
  IF kids = <<>> THEN <<>>
  ELSE JSONstringify(Head(kids))
         \o (IF Len(kids) > 1 THEN <<",">> \o StringifyElems(Tail(kids)) ELSE <<>>)

StringifyMembers(keys, kids) ==
  IF keys = <<>> THEN <<>>
  ELSE Quote(Head(keys)) \o <<":">> \o JSONstringify(Head(kids))
         \o (IF Len(keys) > 1
             THEN <<",">> \o StringifyMembers(Tail(keys), Tail(kids)) ELSE <<>>)

JSONstringify(v) ==
  CASE v.t = "null" -> <<"n", "u", "l", "l">>
    [] v.t = "true" -> <<"t", "r", "u", "e">>
    [] v.t = "false" -> <<"f", "a", "l", "s", "e">>
    [] v.t = "number" -> NumText(v.n)
    [] v.t = "string" -> Quote(v.s)
    [] v.t = "array" -> <<"[">> \o StringifyElems(v.kids) \o <<"]">>
    [] v.t = "object" -> <<"{">> \o StringifyMembers(v.keys, v.kids) \o <<"}">>

(***************************************************************************)
(* JSON.parse, for texts whose numbers are integers and whose string       *)
(* escapes are among \" \\ \/ \n \t \r.                                    *)
(***************************************************************************)
JsonSpace == {" ", "\n", "\t", "\r"}

RECURSIVE SkipWs(_)
SkipWs(s) == IF s # <<>> /\ Head(s) \in JsonSpace THEN SkipWs(Tail(s)) ELSE s

ParseFail == [ok |-> FALSE, v |-> Undefined, rest |-> <<>>]
ParseOk(v, rest) == [ok |-> TRUE, v |-> v, rest |-> rest]

DigitChars == {Digits[i] : i \in 1..10}
DigitValue(c) == (CHOOSE i \in 1..10 : Digits[i] = c) - 1

RECURSIVE ParseDigits(_, _)
\* the digits at the head of s, accumulated onto acc
ParseDigits(s, acc) ==
  IF s # <<>> /\ Head(s) \in DigitChars
  THEN ParseDigits(Tail(s), acc * 10 + DigitValue(Head(s)))
  ELSE ParseOk(JNum(acc), s)

\* int = "0" | digit1-9 *digit, with an optional leading minus
ParseNumber(s) ==
  LET neg == s # <<>> /\ Head(s) = "-"
      d == IF neg THEN Tail(s) ELSE s
  IN IF d = <<>> \/ Head(d) \notin DigitChars THEN ParseFail
     ELSE IF Head(d) = "0"
          THEN IF Len(d) > 1 /\ d[2] \in DigitChars THEN ParseFail
               ELSE ParseOk(JNum(0), Tail(d))
          ELSE LET r == ParseDigits(d, 0)
               IN ParseOk(JNum(IF neg THEN 0 - r.v.n ELSE r.v.n), r.rest)

Unescape(c) ==
  CASE c = "n" -> "\n"
    [] c = "t" -> "\t"
    [] c = "r" -> "\r"
    [] OTHER -> c

RECURSIVE ParseString(_, _)
\* s follows the opening quote; acc is the string read so far
ParseString(s, acc) ==
  IF s = <<>> THEN ParseFail
  ELSE LET c == Head(s)
       IN CASE c = "\"" -> ParseOk(JStr(acc), Tail(s))
            [] c = "\\" ->
                 IF Len(s) > 1 /\ s[2] \in {"\"", "\\", "/", "n", "t", "r"}
                 THEN ParseString(Drop(s, 2), Append(acc, Unescape(s[2])))
                 ELSE ParseFail
            [] c \in {"\n", "\t", "\r"} -> ParseFail
            [] OTHER -> ParseString(Tail(s), Append(acc, c))

\* obj[k] = v: an existing key keeps its place, a new one is appended
ObjPut(o, k, v) ==
  IF \E i \in 1..Len(o.keys) : o.keys[i] = k
  THEN LET i == CHOOSE j \in 1..Len(o.keys) : o.keys[j] = k
       IN JObj(o.keys, [o.kids EXCEPT ![i] = v])
  ELSE JObj(Append(o.keys, k), Append(o.kids, v))

RECURSIVE ParseValue(_)
RECURSIVE ParseElems(_, _)
RECURSIVE ParseMembers(_, _)

\* s follows "[" or ","; acc holds the elements read so far
ParseElems(s, acc) ==
  LET r == ParseValue(s)
  IN IF ~r.ok THEN ParseFail
     ELSE LET t == SkipWs(r.rest)
          IN IF t = <<>> THEN ParseFail
             ELSE IF Head(t) = "," THEN ParseElems(Tail(t), Append(acc, r.v))
             ELSE IF Head(t) = "]" THEN ParseOk(JArr(Append(acc, r.v)), Tail(t))
             ELSE ParseFail

\* s follows "{" or ","; o holds the members read so far
ParseMembers(s, o) ==
  LET k == SkipWs(s)
  IN IF k = <<>> \/ Head(k) # "\"" THEN ParseFail
     ELSE LET key == ParseString(Tail(k), <<>>)
              c == SkipWs(key.rest)
          IN IF ~key.ok \/ c = <<>> \/ Head(c) # ":" THEN ParseFail
             ELSE LET r == ParseValue(Tail(c))
                      t == SkipWs(r.rest)
                  IN IF ~r.ok \/ t = <<>> THEN ParseFail
                     ELSE IF Head(t) = ","
                          THEN ParseMembers(Tail(t), ObjPut(o, key.v.s, r.v))
                     ELSE IF Head(t) = "}"
                          THEN ParseOk(ObjPut(o, key.v.s, r.v), Tail(t))
                     ELSE ParseFail

ParseValue(s0) ==
  LET s == SkipWs(s0)
  IN IF s = <<>> THEN ParseFail
     ELSE CASE StartsWith(s, <<"n", "u", "l", "l">>) -> ParseOk(Null, Drop(s, 4))
            [] StartsWith(s, <<"t", "r", "u", "e">>) -> ParseOk(JTrue, Drop(s, 4))
            [] StartsWith(s, <<"f", "a", "l", "s", "e">>) -> ParseOk(JFalse, Drop(s, 5))
            [] Head(s) = "\"" -> ParseString(Tail(s), <<>>)
            [] Head(s) \in DigitChars \cup {"-"} -> ParseNumber(s)
            [] Head(s) = "[" ->
                 LET t == SkipWs(Tail(s))
                 IN IF t # <<>> /\ Head(t) = "]" THEN ParseOk(JArr(<<>>), Tail(t))
                    ELSE ParseElems(t, <<>>)
            [] Head(s) = "{" ->
                 LET t == SkipWs(Tail(s))
                 IN IF t # <<>> /\ Head(t) = "}" THEN ParseOk(JObj(<<>>, <<>>), Tail(t))
                    ELSE ParseMembers(t, JObj(<<>>, <<>>))
            [] OTHER -> ParseFail

\* JSON.parse(text): ok is FALSE where JSON.parse throws a SyntaxError
JSONparse(text) ==
  LET r == ParseValue(text)
  IN IF r.ok /\ SkipWs(r.rest) = <<>> THEN [ok |-> TRUE, v |-> r.v]
     ELSE [ok |-> FALSE, v |-> Undefined]


(***************************************************************************)
(* Errors.  message is Text; code is the errno name of a system error.     *)
(***************************************************************************)
Err(name, message, code) == [name |-> name, message |-> message, code |-> code]
NoErr == Err("", <<>>, "")

Error(message) == Err("Error", message, "")

ActionNotFound == <<"a", "c", "t", "i", "o", "n", " ", "n", "o", "t", " ", "f", "o", "u", "n", "d">>
PluginNotFound == <<"p", "l", "u", "g", "i", "n", " ", "n", "o", "t", " ", "f", "o", "u", "n", "d">>
ExternalPluginFailed ==
  <<"e", "x", "t", "e", "r", "n", "a", "l", " ", "p", "l", "u", "g", "i", "n", " ",
    "f", "a", "i", "l", "e", "d">>
Boom == <<"b", "o", "o", "m">>
ImportFailed == <<"i", "m", "p", "o", "r", "t">>
UnexpectedToken == <<"U", "n", "e", "x", "p", "e", "c", "t", "e", "d", " ", "t", "o", "k", "e", "n">>
CannotRead ==
  <<"C", "a", "n", "n", "o", "t", " ", "r", "e", "a", "d", " ", "p", "r", "o", "p", "e", "r",
    "t", "i", "e", "s">>
ListenerFailed == <<"l", "i", "s", "t", "e", "n", "e", "r">>

\* what spawn reports through the 'error' event when the command cannot be started
SpawnError == Err("Error", <<"s", "p", "a", "w", "n", " ", "E", "N", "O", "E", "N", "T">>, "ENOENT")

(***************************************************************************)
(* Promise outcomes.                                                       *)
(***************************************************************************)
Pending == [st |-> "pending", v |-> Undefined, err |-> NoErr]
Resolved(v) == [st |-> "resolved", v |-> v, err |-> NoErr]
Rejected(e) == [st |-> "rejected", v |-> Undefined, err |-> e]

\* Variant of Settle: a later settlement replaces the first.
SettleLast(current, outcome) == outcome

\* resolve/reject of a promise: only the first settlement counts
Settle(current, outcome) == IF current.st = "pending" THEN outcome ELSE current

(***************************************************************************)
(* Plugins, action callables and external descriptors.                     *)
(***************************************************************************)
echo == <<"e", "c", "h", "o">>
time == <<"t", "i", "m", "e">>
process == <<"p", "r", "o", "c", "e", "s", "s">>
fail == <<"f", "a", "i", "l">>
toString == <<"t", "o", "S", "t", "r", "i", "n", "g">>
ActionNames == {echo, time, process, fail, toString}

\* an event name an action passes to ctx.emit
progress == <<"p", "r", "o", "g", "r", "e", "s", "s">>

\* the sample plugin: echo: async (payload) => payload, time: () => new Date().toISOString()
samplePlugin ==
  [name |-> "sample", actions |-> [k \in {echo, time} |-> IF k = echo THEN "echo" ELSE "time"]]

\* an in-process plugin whose name the manifest also uses: process emits through its
\* context, then reads a property of its payload and returns an object; fail throws
\* or rejects
toolPlugin ==
  [name |-> "tool",
   actions |-> [k \in {process, fail} |-> IF k = process THEN "process" ELSE "fail"]]

PluginPool == {samplePlugin, toolPlugin}

\* a plugin that takes the sample plugin's name
sampleRevised == [name |-> "sample", actions |-> [k \in {time} |-> "time"]]

\* what register is called with, directly, in SpecLoad
RegisterPool == PluginPool \cup {sampleRevised}

\* properties every object literal inherits from Object.prototype
ObjectPrototype == [k \in {toString} |-> "Object.prototype.toString"]

ObjectUndefined ==
  <<"[", "o", "b", "j", "e", "c", "t", " ", "U", "n", "d", "e", "f", "i", "n", "e", "d", "]">>

\* internal.actions[action]: own properties first, then the prototype chain
ActionLookup(plugin, action) ==
  IF action \in DOMAIN plugin.actions THEN plugin.actions[action]
  ELSE IF action \in DOMAIN ObjectPrototype THEN ObjectPrototype[action]
  ELSE "undefined"

\* values new Date().toISOString() may give
ClockTexts == {<<"T", "1">>, <<"T", "2">>}

Success == JObj(<<<<"o", "k">>>>, <<JTrue>>)

\* What calling fn(payload, ctx) can do: the events it raises through ctx.emit, then
\* kind "return" (a value), "throw", "resolve" or "reject" (a promise, settled later).
CallResult(kind, v, err, emits) == [kind |-> kind, v |-> v, err |-> err, emits |-> emits]

Invoke(fn, payload) ==
  CASE fn = "echo" -> {CallResult("resolve", payload, NoErr, <<>>)}
    [] fn = "time" -> {CallResult("return", JStr(t), NoErr, <<>>) : t \in ClockTexts}
    [] fn = "process" ->
         IF payload \in {Undefined, Null}
         THEN {CallResult("reject", Undefined, Err("TypeError", CannotRead, ""), <<progress>>)}
         ELSE {CallResult("resolve", Success, NoErr, <<progress>>)}
    [] fn = "fail" -> {CallResult("throw", Undefined, Error(Boom), <<>>),
                       CallResult("reject", Undefined, Error(Boom), <<>>)}
    [] fn = "Object.prototype.toString" ->
         {CallResult("return", JStr(ObjectUndefined), NoErr, <<>>)}

Descriptor(name, command, args, cwd) ==
  [name |-> name, command |-> command, args |-> args, cwd |-> cwd]

\* manifest.json: an executable that prints its last argument and exits 0, registered
\* under the name the in-process tool plugin uses, and an interpreter running a script
Manifest ==
  <<Descriptor("tool", "echo-json", <<>>, ""),
    Descriptor("ext", "python", <<<<"p", ".", "p", "y">>>>, "plugins")>>

PluginNames == {"sample", "tool", "ext", "ghost"}

(***************************************************************************)
(* Inputs.                                                                 *)
(***************************************************************************)
EmptyObject == JObj(<<>>, <<>>)
ObjX1 == JObj(<<<<"x">>>>, <<JNum(1)>>)
ObjNested == JObj(<<<<"k">>>>, <<JArr(<<JStr(<<" ", "\"">>), JNum(-2)>>)>>)

\* payloads of execute: absent (undefined) or JSON-compatible
Payloads ==
  {Undefined, Null, JNum(0), JStr(<<>>), JStr(<<"h", "i">>), EmptyObject, ObjX1, ObjNested}


\* what an external program that is not the echo executable may write, per 'data' event
OutChunks == {<<"h", "i">>, <<"[", "1", ",">>, <<" ", "2", "]", "\n">>}
ErrChunks == {Boom \o <<"\n">>}

\* the code of a 'close' event: the exit status, or null after a signal
ExitCodes == {JNum(0), JNum(2), Null}

\* the code of the 'close' event that follows a failed spawn (the negated errno)
SpawnFailedCode == JNum(-2)

\* A file the walk of the plugin directory meets: its extension, whether importing it
\* succeeds, and its default export.
File(ext, imports, hasDefault, default) ==
  [ext |-> ext, imports |-> imports, hasDefault |-> hasDefault, default |-> default]

NoPlugin == [name |-> "", actions |-> <<>>]

\* src/plugins of the repository: external/cpp/processor.cpp, internal/samplePlugin.ts
processorCpp == File(".cpp", TRUE, FALSE, NoPlugin)
samplePluginTs == File(".ts", TRUE, TRUE, samplePlugin)
\* further modules: the tool plugin, a helper with no default export, a module whose
\* import throws
toolPluginJs == File(".js", TRUE, TRUE, toolPlugin)
helperMjs == File(".mjs", TRUE, FALSE, NoPlugin)
brokenJs == File(".js", FALSE, FALSE, NoPlugin)

\* plugins/manifest.json
ManifestFile(exists, json, list) == [exists |-> exists, json |-> json, list |-> list]
NoManifest == ManifestFile(FALSE, FALSE, <<>>)

\* a manifest that names ext twice
ManifestTwice ==
  <<Descriptor("ext", "python", <<<<"p", ".", "p", "y">>>>, "plugins"),
    Descriptor("tool", "echo-json", <<>>, ""),
    Descriptor("ext", "node", <<>>, "")>>

\* a descriptor property the manifest entry does not have: JSON.parse leaves it out
Absent == ""

\* a manifest whose second entry has a name and no command
ManifestNoCommand ==
  <<Descriptor("tool", "echo-json", <<>>, ""),
    Descriptor("ext", Absent, <<>>, "")>>

\* <baseDir>/plugins: whether it exists, the files of its walk, its manifest
Tree(exists, files, manifest) == [exists |-> exists, files |-> files, manifest |-> manifest]

Trees ==
  {Tree(FALSE, <<>>, NoManifest),
   Tree(TRUE, <<processorCpp, samplePluginTs>>, NoManifest),
   Tree(TRUE, <<processorCpp, samplePluginTs>>, ManifestFile(TRUE, TRUE, Manifest)),
   Tree(TRUE, <<samplePluginTs, helperMjs, toolPluginJs>>, ManifestFile(TRUE, TRUE, Manifest)),
   Tree(TRUE, <<toolPluginJs>>, ManifestFile(TRUE, TRUE, ManifestTwice)),
   Tree(TRUE, <<samplePluginTs, brokenJs, toolPluginJs>>, ManifestFile(TRUE, TRUE, Manifest)),
   Tree(TRUE, <<samplePluginTs>>, ManifestFile(TRUE, FALSE, <<>>)),
   Tree(TRUE, <<samplePluginTs>>, ManifestFile(TRUE, TRUE, ManifestNoCommand))}

\* the plugin directories the server is started on in SpecConcurrent
StartupTrees ==
  {Tree(TRUE, <<processorCpp, samplePluginTs>>, ManifestFile(TRUE, TRUE, Manifest)),
   Tree(TRUE, <<samplePluginTs, helperMjs, toolPluginJs>>, ManifestFile(TRUE, TRUE, Manifest))}

\* what concurrent callers pass (an action the tool plugin fails in and the sample
\* plugin lacks); the interpreter's script writes to stderr only
ConcurrentActions == {fail}
ConcurrentPayloads == {EmptyObject, JNum(1)}
ConcurrentCodes == {JNum(0), JNum(2)}

\* The listeners the server subscribes: the WebSocket broadcaster's, which send the
\* event to the sockets that are open and do not throw.
ListenerPool ==
  {[event |-> "pluginLoaded", throws |-> FALSE],
   [event |-> "pluginExecuted", throws |-> FALSE]}

(***************************************************************************)
(* State.                                                                  *)
(*   plugins    PluginService.plugins: name -> Plugin                      *)
(*   externals  PluginService.externals: name -> ExternalPluginDescriptor  *)
(*   listeners  the EventBus emitter's listeners, in registration order    *)
(*   calls      the execute calls: inputs, position, what the call has     *)
(*              done so far, its subprocess and its promise                *)
(*   loaded     the pluginLoaded events the EventBus was given by the      *)
(*              registry operation that ran last, in emission order        *)
(*   loads      the loadAll calls made so far, each with what it was given *)
(*              and what it did                                            *)
(*   bus        the last emit made on the EventBus from outside the plugin *)
(*              service: the listeners it invoked, in order                *)
(*   server     server.ts: how far the startup sequence is, and what the   *)
(*              WebSocket broadcaster has sent to its clients              *)
(*   requests   the POST /mcp/execute requests, one per execute call, each *)
(*              with the responses written to it                           *)
(*   task       the Task document in the database                          *)
(*   jobs       the executeTask calls, one per execute call, each with its *)
(*              own copy of the document                                   *)
(***************************************************************************)
VARIABLES plugins, externals, listeners, calls, loaded, loads,
          bus, server, requests, task, jobs, limiter, client

vars == <<plugins, externals, listeners, calls, loaded, loads,
          bus, server, requests, task, jobs, limiter, client>>

\* what the event bus, the host, the task service, the rate limiter and the WebSocket
\* client are outside the plugin service
rest == <<bus, server, requests, task, jobs, limiter, client>>

CallIds == 1..MaxCalls

NoProc ==
  [state |-> "none", started |-> FALSE, command |-> "", argv |-> <<>>, cwd |-> "",
   shell |-> FALSE, todo |-> <<>>, code |-> Undefined]

NoDesc == [name |-> "", command |-> "", args |-> <<>>, cwd |-> ""]

NoResult == [kind |-> "none", v |-> Undefined, err |-> NoErr, emits |-> <<>>]

IdleCall ==
  [pc |-> "idle", pluginName |-> "", action |-> <<>>, payload |-> Undefined,
   inPlugins |-> FALSE, inExternals |-> FALSE, own |-> FALSE,
   fn |-> "", ret |-> NoResult, emitted |-> <<>>, spawned |-> 0,
   desc |-> NoDesc, proc |-> NoProc, chunks |-> <<>>, errChunks |-> <<>>, outcome |-> Pending]

EmptyMap == [n \in {} |-> 0]

\* map.set(key, value)
MapSet(map, key, value) ==
  [n \in DOMAIN map \cup {key} |-> IF n = key THEN value ELSE map[n]]

\* no emit made yet
NoEmit == [event |-> "", args |-> <<>>, listeners |-> <<>>, invoked |-> <<>>, threw |-> FALSE]

\* the host process before server.ts runs
ServerOff == [pc |-> "off", sent |-> <<>>]

NoRequest == [state |-> "none", responses |-> <<>>]

\* a Task document: the fields executeTask reads and writes; a date is a number of
\* milliseconds, 0 when the field is not set
NoTask ==
  [exists |-> FALSE, plugin |-> "", action |-> <<>>, payload |-> Undefined,
   status |-> "pending", result |-> Undefined, error |-> Undefined,
   retryCount |-> 0, maxRetries |-> 0, scheduledAt |-> 0, startedAt |-> 0, completedAt |-> 0]

\* an executeTask call: where it is, whether it was given a plugin service, the
\* document as findById returned it and as the call has changed it, the paths changed
\* since the last save, the last Date.now() read for scheduledAt, the execute calls
\* made, the error caught and how the promise settled (resolved: with doc)
IdleJob ==
  [pc |-> "idle", service |-> FALSE, found |-> NoTask, doc |-> NoTask, dirty |-> {},
   now |-> 0, executed |-> 0, err |-> NoErr, outcome |-> "pending"]

\* the plugin service on its own: no host around it, no task
\* rateLimit(opts) has returned its middleware: const buckets = new Map(); the clock
\* counts the milliseconds since then and last is what the middleware did with the
\* request it handled last.  window is the observer's: the key it watches (none
\* yet), since when, and the requests of that key let through since then.
NoLimiter ==
  [buckets |-> EmptyMap, now |-> 0,
   last |-> [key |-> "", admitted |-> FALSE, status |-> 0, remaining |-> 0, retryAfter |-> 0],
   window |-> [key |-> "", start |-> 0, admitted |-> 0]]

\* new WebSocketClient(url): ws = null, reconnectAttempts = 0; no socket, no timer
NoClient ==
  [ws |-> 0, reconnectAttempts |-> 0, sockets |-> <<>>, timers |-> 0,
   disconnected |-> FALSE, scheduled |-> 0, opened |-> 0]

Alone ==
  /\ bus = NoEmit
  /\ server = ServerOff
  /\ requests = [c \in CallIds |-> NoRequest]
  /\ task = NoTask
  /\ jobs = [c \in CallIds |-> IdleJob]
  /\ limiter = NoLimiter
  /\ client = NoClient

Init ==
  /\ plugins = EmptyMap
  /\ externals = EmptyMap
  /\ listeners = <<>>
  /\ calls = [c \in CallIds |-> IdleCall]
  /\ loaded = <<>>
  /\ loads = <<>>
  /\ Alone

(***************************************************************************)
(* EventBus.                                                               *)
(***************************************************************************)
\* on(event, listener)
On(l) ==
  /\ Len(listeners) < MaxListeners
  /\ listeners' = Append(listeners, l)
  /\ UNCHANGED <<plugins, externals, calls, loaded, loads, rest>>

\* emit(event, ...args) calls the listeners of event in order; a listener that throws
\* makes emit throw
EmitThrows(ls, event) == \E i \in 1..Len(ls) : ls[i].event = event /\ ls[i].throws

Event(name, a, b) == [name |-> name, args |-> <<a, b>>]

(***************************************************************************)
(* Registry.                                                               *)
(***************************************************************************)
\* What the bus is given by this.events.emit('pluginLoaded', name), with the names
\* execute could resolve at that moment.
Loaded(name, ps, es) ==
  [name |-> "pluginLoaded", args |-> <<name>>, resolvable |-> DOMAIN ps \cup DOMAIN es]

\* Variant of Register: the map is replaced by one that holds the plugin alone.
RegisterAlone(plugin) ==
  /\ plugins' = MapSet(EmptyMap, plugin.name, plugin)
  /\ loaded' = <<Loaded(plugin.name, plugins', externals)>>
  /\ UNCHANGED <<externals, listeners, calls, loads, rest>>

\* register(plugin)
Register(plugin) ==
  /\ plugins' = MapSet(plugins, plugin.name, plugin)
  /\ loaded' = <<Loaded(plugin.name, plugins', externals)>>
  /\ UNCHANGED <<externals, listeners, calls, loads, rest>>

RECURSIVE SetAll(_, _)
\* for (const d of list) this.externals.set(d.name, d)
SetAll(map, list) ==
  IF list = <<>> THEN map ELSE SetAll(MapSet(map, Head(list).name, Head(list)), Tail(list))

\* Variant of EmitAll: each entry is announced as soon as it is set, before the
\* entries after it.
EmitAllEarly(ls, list, ps, es) ==
  [i \in 1..Len(list) |-> Loaded(list[i].name, ps, SetAll(EmptyMap, SubSeq(list, 1, i)))]

\* for (const d of list) this.events.emit('pluginLoaded', d.name): one emit per entry,
\* the loop ending at the first emit that throws
EmitAll(ls, list, ps, es) ==
  IF list # <<>> /\ EmitThrows(ls, "pluginLoaded")
  THEN <<Loaded(list[1].name, ps, es)>>
  ELSE [i \in 1..Len(list) |-> Loaded(list[i].name, ps, es)]

\* loadExternal(manifestPath), the manifest file holding list
LoadExternal(list) ==
  /\ externals' = SetAll(externals, list)
  /\ loaded' = EmitAll(listeners, list, plugins, externals')
  /\ UNCHANGED <<plugins, listeners, calls, loads, rest>>

(***************************************************************************)
(* Loader: loadAll(baseDir).  A walk is the registry and the events so far *)
(* and the error that ended it, if any.                                    *)
(***************************************************************************)
Walk(ps, es, events, err) == [plugins |-> ps, externals |-> es, events |-> events, err |-> err]

\* name.endsWith('.js') || name.endsWith('.mjs') || name.endsWith('.ts')
IsModule(file) == file.ext \in {".js", ".mjs", ".ts"}

\* Variant of VisitFile: a plugin whose name is registered already is skipped.
VisitFileOnce(w, file, ls) ==
  IF ~IsModule(file) THEN w
  ELSE IF ~file.imports THEN [w EXCEPT !.err = Error(ImportFailed)]
  ELSE IF ~file.hasDefault \/ file.default.name = "" THEN w
  ELSE IF file.default.name \in DOMAIN w.plugins THEN w
  ELSE LET ps == MapSet(w.plugins, file.default.name, file.default)
       IN [w EXCEPT !.plugins = ps,
                    !.events = Append(@, Loaded(file.default.name, ps, w.externals))]

\* One file of the walk of loadInternal: a module is imported and its default export
\* registered when it is a plugin with a name; an import that throws ends the walk.
VisitFile(w, file, ls) ==
  IF ~IsModule(file) THEN w
  ELSE IF ~file.imports THEN [w EXCEPT !.err = Error(ImportFailed)]
  ELSE IF ~file.hasDefault \/ file.default.name = "" THEN w
  ELSE LET ps == MapSet(w.plugins, file.default.name, file.default)
           ev == Append(w.events, Loaded(file.default.name, ps, w.externals))
       IN IF EmitThrows(ls, "pluginLoaded")
          THEN [w EXCEPT !.plugins = ps, !.events = ev, !.err = Error(ListenerFailed)]
          ELSE [w EXCEPT !.plugins = ps, !.events = ev]

RECURSIVE LoadInternalWalk(_, _, _)
\* loadInternal(dir): files is what the recursive walk of dir meets, in its order
LoadInternalWalk(w, files, ls) ==
  IF files = <<>> \/ w.err # NoErr THEN w
  ELSE LoadInternalWalk(VisitFile(w, Head(files), ls), Tail(files), ls)

\* Variant of LoadExternalWalk: a manifest that is missing is an error, as reading a
\* file that does not exist is.
LoadExternalWalkStrict(w, manifest, ls) ==
  IF w.err # NoErr THEN w
  ELSE IF ~manifest.exists THEN [w EXCEPT !.err = Err("Error", ImportFailed, "ENOENT")]
  ELSE IF ~manifest.json THEN [w EXCEPT !.err = Err("SyntaxError", UnexpectedToken, "")]
  ELSE LET es == SetAll(w.externals, manifest.list)
       IN [w EXCEPT !.externals = es,
                    !.events = w.events \o EmitAll(ls, manifest.list, w.plugins, es)]

\* loadExternal(manifestPath) as a step of the walk: a manifest that is missing loads
\* nothing, one that is not JSON makes JSON.parse throw
LoadExternalWalk(w, manifest, ls) ==
  IF w.err # NoErr \/ ~manifest.exists THEN w
  ELSE IF ~manifest.json THEN [w EXCEPT !.err = Err("SyntaxError", UnexpectedToken, "")]
  ELSE LET es == SetAll(w.externals, manifest.list)
           ev == EmitAll(ls, manifest.list, w.plugins, es)
       IN [w EXCEPT !.externals = es, !.events = w.events \o ev,
                    !.err = IF manifest.list # <<>> /\ EmitThrows(ls, "pluginLoaded")
                            THEN Error(ListenerFailed) ELSE NoErr]

\* Variant of LoadAllWalk: a failure of the manifest step undoes the walk's registrations.
LoadAllWalkRollback(ps, es, ls, tree) ==
  LET internal == IF tree.exists THEN LoadInternalWalk(Walk(ps, es, <<>>, NoErr), tree.files, ls)
                  ELSE Walk(ps, es, <<>>, NoErr)
      w == LoadExternalWalk(internal, tree.manifest, ls)
  IN IF internal.err = NoErr /\ w.err # NoErr THEN Walk(ps, es, w.events, w.err) ELSE w

\* await this.loadInternal(internalDir); await this.loadExternal(manifest)
LoadAllWalk(ps, es, ls, tree) ==
  LET internal == IF tree.exists THEN LoadInternalWalk(Walk(ps, es, <<>>, NoErr), tree.files, ls)
                  ELSE Walk(ps, es, <<>>, NoErr)
  IN LoadExternalWalk(internal, tree.manifest, ls)

\* A loadAll call that is over: what it was given, the registry before and after it,
\* the events it emitted and how its promise settled.
Load(tree, ps, es, w) ==
  [tree |-> tree, before |-> <<ps, es>>, after |-> <<w.plugins, w.externals>>,
   events |-> w.events,
   outcome |-> IF w.err = NoErr THEN Resolved(Undefined) ELSE Rejected(w.err)]

\* loadAll(baseDir), tree being what <baseDir>/plugins holds
LoadAll(tree) ==
  /\ Len(loads) < MaxLoads
  /\ LET w == LoadAllWalk(plugins, externals, listeners, tree)
     IN /\ plugins' = w.plugins
        /\ externals' = w.externals
        /\ loaded' = w.events
        /\ loads' = Append(loads, Load(tree, plugins, externals, w))
  /\ UNCHANGED <<listeners, calls, rest>>

(***************************************************************************)
(* Dispatcher: execute(pluginName, action, payload).                       *)
(***************************************************************************)
\* this.plugins.get(pluginName) is tried first, then this.externals.get(pluginName)
Resolve(ps, es, pluginName) ==
  IF pluginName \in DOMAIN ps THEN "internal"
  ELSE IF pluginName \in DOMAIN es THEN "external"
  ELSE "none"

\* Variant of NotFoundCall: the throw is missing and execute returns undefined.
NotFoundCallReturns(call) ==
  [call EXCEPT !.pc = "settled", !.outcome = Resolved(Undefined)]

\* throw new Error('plugin not found')
NotFoundCall(call) ==
  [call EXCEPT !.pc = "settled", !.outcome = Rejected(Error(PluginNotFound))]

\* The events fn raises through ctx.emit(event, data), each forwarded as
\* this.events.emit('pluginExecuted', pluginName, event), and what becomes of fn's
\* result when a listener throws into it.
CtxEmit(ls, pluginName, r) ==
  IF r.emits # <<>> /\ EmitThrows(ls, "pluginExecuted")
  THEN [r EXCEPT !.kind = IF r.kind = "return" THEN "throw" ELSE "reject",
                 !.v = Undefined,
                 !.err = Error(ListenerFailed),
                 !.emits = <<Event("pluginExecuted", pluginName, Head(r.emits))>>]
  ELSE [r EXCEPT !.emits =
          [i \in 1..Len(r.emits) |-> Event("pluginExecuted", pluginName, r.emits[i])]]

\* The in-process branch up to the await: the action is looked up, a missing one
\* throws, a found one is called with (payload, ctx). r is what the callable does.
InternalCall(call, plugin, ls, r) ==
  LET fn == ActionLookup(plugin, call.action)
      done == CtxEmit(ls, call.pluginName, r)
  IN IF fn = "undefined"
     THEN [call EXCEPT !.pc = "settled", !.outcome = Rejected(Error(ActionNotFound))]
     ELSE IF done.kind = "throw"
     THEN [call EXCEPT !.pc = "settled", !.fn = fn, !.ret = done,
                       !.emitted = done.emits, !.outcome = Rejected(done.err)]
     ELSE [call EXCEPT !.pc = "awaitFn", !.fn = fn, !.ret = done, !.emitted = done.emits]

\* Variant of SpawnArgs: the manifest's args are left out.
SpawnArgsPayloadOnly(desc, payload) ==
  <<JSONstringify(OrElse(payload, EmptyObject))>>

\* [...(desc.args || []), JSON.stringify(payload || {})]
SpawnArgs(desc, payload) ==
  desc.args \o <<JSONstringify(OrElse(payload, EmptyObject))>>

\* spawn(desc.command, argv, { cwd: desc.cwd || process.cwd(), shell: false }).
\* started: whether the operating system could start the command.  todo is what the
\* echo executable has yet to print: its last argument.
Spawn(desc, payload, started) ==
  LET argv == SpawnArgs(desc, payload)
  IN [state |-> IF started THEN "running" ELSE "failing",
      started |-> started,
      command |-> desc.command,
      argv |-> argv,
      cwd |-> IF desc.cwd # "" THEN desc.cwd ELSE "process.cwd()",
      shell |-> FALSE,
      todo |-> IF started /\ desc.command = "echo-json" THEN argv[Len(argv)] ELSE <<>>,
      code |-> Undefined]

\* executeExternal(desc, payload) up to the return of the promise executor
ExternalCall(call, desc, started) ==
  [call EXCEPT !.pc = "awaitProc", !.spawned = @ + 1, !.desc = desc,
               !.proc = Spawn(desc, call.payload, started)]

\* The synchronous part of execute.
Dispatch(call, ps, es, ls, r, started) ==
  LET origin == Resolve(ps, es, call.pluginName)
  IN CASE origin = "internal" -> InternalCall(call, ps[call.pluginName], ls, r)
       [] origin = "external" -> ExternalCall(call, es[call.pluginName], started)
       [] OTHER -> NotFoundCall(call)

\* What the callable about to be called can do (nothing to choose when none is called).
Behaviours(ps, pluginName, action, payload) ==
  IF pluginName \in DOMAIN ps /\ ActionLookup(ps[pluginName], action) # "undefined"
  THEN Invoke(ActionLookup(ps[pluginName], action), payload)
  ELSE {NoResult}

NewCall(pluginName, action, payload) ==
  [IdleCall EXCEPT !.pluginName = pluginName, !.action = action, !.payload = payload,
                   !.inPlugins = pluginName \in DOMAIN plugins,
                   !.inExternals = pluginName \in DOMAIN externals,
                   !.own = pluginName \in DOMAIN plugins
                           /\ action \in DOMAIN plugins[pluginName].actions]

\* The promise of a new call takes the first free place of calls.
ExecuteCall(c, pluginName, action, payload) ==
  /\ calls[c].pc = "idle"
  /\ \A d \in 1..(c - 1) : calls[d].pc # "idle"
  /\ \E r \in Behaviours(plugins, pluginName, action, payload) :
       \E started \in (IF Resolve(plugins, externals, pluginName) = "external"
                       THEN BOOLEAN ELSE {TRUE}) :
         calls' = [calls EXCEPT ![c] =
                     Dispatch(NewCall(pluginName, action, payload),
                              plugins, externals, listeners, r, started)]
  /\ UNCHANGED <<plugins, externals, listeners, loaded, loads, rest>>

\* Variant of Finish: `return res` is missing.
FinishDropsResult(call, ls) ==
  IF call.ret.kind = "reject"
  THEN [call EXCEPT !.pc = "settled", !.outcome = Rejected(call.ret.err)]
  ELSE [call EXCEPT !.pc = "settled",
                    !.emitted = Append(@, Event("pluginExecuted", call.pluginName, call.action)),
                    !.outcome = IF EmitThrows(ls, "pluginExecuted")
                                THEN Rejected(Error(ListenerFailed))
                                ELSE Resolved(Undefined)]

\* Variant of Finish: res is returned without the pluginExecuted emit before it.
FinishNoEvent(call, ls) ==
  IF call.ret.kind = "reject"
  THEN [call EXCEPT !.pc = "settled", !.outcome = Rejected(call.ret.err)]
  ELSE [call EXCEPT !.pc = "settled", !.outcome = Resolved(call.ret.v)]

\* The in-process branch after `await Promise.resolve(fn(payload, ctx))`: a rejected
\* promise throws; otherwise pluginExecuted is emitted and res returned.
Finish(call, ls) ==
  IF call.ret.kind = "reject"
  THEN [call EXCEPT !.pc = "settled", !.outcome = Rejected(call.ret.err)]
  ELSE [call EXCEPT !.pc = "settled",
                    !.emitted = Append(@, Event("pluginExecuted", call.pluginName, call.action)),
                    !.outcome = IF EmitThrows(ls, "pluginExecuted")
                                THEN Rejected(Error(ListenerFailed))
                                ELSE Resolved(call.ret.v)]

\* Variant of Resume: the action is looked up again in the registry after the await.
ResumeLateLookup(c) ==
  /\ calls[c].pc = "awaitFn"
  /\ calls' = [calls EXCEPT ![c] =
                 IF ActionLookup(plugins[calls[c].pluginName], calls[c].action) = calls[c].fn
                 THEN Finish(calls[c], listeners)
                 ELSE [calls[c] EXCEPT !.pc = "settled",
                                       !.outcome = Rejected(Error(ActionNotFound))]]
  /\ UNCHANGED <<plugins, externals, listeners, loaded, loads, rest>>

Resume(c) ==
  /\ calls[c].pc = "awaitFn"
  /\ calls' = [calls EXCEPT ![c] = Finish(calls[c], listeners)]
  /\ UNCHANGED <<plugins, externals, listeners, loaded, loads, rest>>

(***************************************************************************)
(* External invocation protocol: the events of the subprocess.             *)
(***************************************************************************)
Room(call) == Len(call.chunks) + Len(call.errChunks) < MaxChunks

\* Variant of StdoutData: a new chunk is put in front of the earlier ones.
StdoutDataPrepends(call, d) == [call EXCEPT !.chunks = <<d>> \o @]

\* proc.stdout.on('data', d => chunks.push(Buffer.from(d)))
StdoutData(call, d) == [call EXCEPT !.chunks = Append(@, d)]

\* Variant of StderrData: the first output on stderr rejects the invocation.
StderrDataRejects(call, d) ==
  [call EXCEPT !.errChunks = Append(@, d), !.pc = "settled",
               !.outcome = Settle(@, Rejected(Error(d)))]

\* proc.stderr.on('data', d => errChunks.push(Buffer.from(d)))
StderrData(call, d) == [call EXCEPT !.errChunks = Append(@, d)]

\* a program other than the echo executable writes to stdout
ProcStdout(c, d) ==
  /\ calls[c].proc.state = "running"
  /\ calls[c].proc.command # "echo-json"
  /\ Room(calls[c])
  /\ calls' = [calls EXCEPT ![c] = StdoutData(calls[c], d)]
  /\ UNCHANGED <<plugins, externals, listeners, loaded, loads, rest>>

\* the echo executable writes the next characters of its last argument, any number
\* of them; the last chunk the bound allows carries all that is left
ProcEcho(c) ==
  /\ calls[c].proc.state = "running"
  /\ calls[c].proc.command = "echo-json"
  /\ Room(calls[c])
  /\ \E k \in 1..Len(calls[c].proc.todo) :
       /\ Len(calls[c].chunks) + 1 = MaxChunks => k = Len(calls[c].proc.todo)
       /\ calls' = [calls EXCEPT ![c] =
                      [StdoutData(calls[c], SubSeq(calls[c].proc.todo, 1, k))
                         EXCEPT !.proc.todo = Drop(@, k)]]
  /\ UNCHANGED <<plugins, externals, listeners, loaded, loads, rest>>

ProcStderr(c, d) ==
  /\ calls[c].proc.state = "running"
  /\ calls[c].proc.command # "echo-json"
  /\ Room(calls[c])
  /\ calls' = [calls EXCEPT ![c] = StderrData(calls[c], d)]
  /\ UNCHANGED <<plugins, externals, listeners, loaded, loads, rest>>

\* Variant of OnError: the 'error' event is not handed to reject.
OnErrorIgnored(call, err) == [call EXCEPT !.proc.state = "errored"]

\* Variant of OnError: the event leaves the subprocess as it was.
OnErrorKeepsState(call, err) ==
  [call EXCEPT !.pc = "settled", !.outcome = Settle(@, Rejected(err))]

\* proc.on('error', reject)
OnError(call, err) ==
  [call EXCEPT !.pc = "settled", !.proc.state = "errored",
               !.outcome = Settle(@, Rejected(err))]

\* Variant of ProcError: the error of one subprocess rejects every pending invocation.
ProcErrorRejectsAll(c) ==
  /\ calls[c].proc.state = "failing"
  /\ calls' = [d \in CallIds |->
                 IF d = c \/ calls[d].pc = "awaitProc"
                 THEN OnError(calls[d], SpawnError) ELSE calls[d]]
  /\ UNCHANGED <<plugins, externals, listeners, loaded, loads, rest>>

ProcError(c) ==
  /\ calls[c].proc.state = "failing"
  /\ calls' = [calls EXCEPT ![c] = OnError(calls[c], SpawnError)]
  /\ UNCHANGED <<plugins, externals, listeners, loaded, loads, rest>>

\* Variant of CloseOutcome: only the last stdout chunk is decoded.
CloseOutcomeLastChunk(code, chunks, errChunks) ==
  IF code = JNum(0)
  THEN LET out == trim(IF chunks = <<>> THEN <<>> ELSE chunks[Len(chunks)])
           parsed == JSONparse(out)
       IN IF parsed.ok THEN Resolved(parsed.v) ELSE Resolved(JStr(out))
  ELSE LET text == Flatten(errChunks)
       IN Rejected(Error(IF text # <<>> THEN text ELSE ExternalPluginFailed))

\* Variant of CloseOutcome: stdout is not trimmed.
CloseOutcomeNoTrim(code, chunks, errChunks) ==
  IF code = JNum(0)
  THEN LET out == Flatten(chunks)
           parsed == JSONparse(out)
       IN IF parsed.ok THEN Resolved(parsed.v) ELSE Resolved(JStr(out))
  ELSE LET text == Flatten(errChunks)
       IN Rejected(Error(IF text # <<>> THEN text ELSE ExternalPluginFailed))

\* Variant of CloseOutcome: stderr is trimmed like stdout.
CloseOutcomeTrimmedErr(code, chunks, errChunks) ==
  IF code = JNum(0)
  THEN LET out == trim(Flatten(chunks))
           parsed == JSONparse(out)
       IN IF parsed.ok THEN Resolved(parsed.v) ELSE Resolved(JStr(out))
  ELSE LET text == trim(Flatten(errChunks))
       IN Rejected(Error(IF text # <<>> THEN text ELSE ExternalPluginFailed))

\* Variant of CloseOutcome: a subprocess ended by a signal counts as a success.
CloseOutcomeSignalOk(code, chunks, errChunks) ==
  IF code = JNum(0) \/ code = Null
  THEN LET out == trim(Flatten(chunks))
           parsed == JSONparse(out)
       IN IF parsed.ok THEN Resolved(parsed.v) ELSE Resolved(JStr(out))
  ELSE LET text == Flatten(errChunks)
       IN Rejected(Error(IF text # <<>> THEN text ELSE ExternalPluginFailed))

\* The body of the 'close' handler.
CloseOutcome(code, chunks, errChunks) ==
  IF code = JNum(0)
  THEN LET out == trim(Flatten(chunks))
           parsed == JSONparse(out)
       IN IF parsed.ok THEN Resolved(parsed.v) ELSE Resolved(JStr(out))
  ELSE LET text == Flatten(errChunks)
       IN Rejected(Error(IF text # <<>> THEN text ELSE ExternalPluginFailed))

\* proc.on('close', code => ...)
OnClose(call, code) ==
  [call EXCEPT !.pc = "settled", !.proc.state = "closed", !.proc.code = code,
               !.outcome = Settle(@, CloseOutcome(code, call.chunks, call.errChunks))]

\* Variant of ProcClose: the close handler reads the buffers of the first call.
ProcCloseShared(c, code) ==
  /\ calls[c].proc.state \in {"running", "errored"}
  /\ calls[c].proc.command = "echo-json" /\ calls[c].proc.state = "running"
       => calls[c].proc.todo = <<>> /\ code = JNum(0)
  /\ calls' = [calls EXCEPT ![c] =
                 OnClose([calls[c] EXCEPT !.chunks = calls[1].chunks,
                                          !.errChunks = calls[1].errChunks], code)]
  /\ UNCHANGED <<plugins, externals, listeners, loaded, loads, rest>>

\* The subprocess ends: the echo executable with status 0 once it has printed its
\* argument, any other program with any status or by a signal, and a command that
\* could not be started with the close that follows its error.
ProcClose(c, code) ==
  /\ \/ /\ calls[c].proc.state = "running"
        /\ calls[c].proc.command = "echo-json"
        /\ calls[c].proc.todo = <<>>
        /\ code = JNum(0)
     \/ /\ calls[c].proc.state = "running"
        /\ calls[c].proc.command # "echo-json"
        /\ code \in ExitCodes
     \/ /\ calls[c].proc.state = "errored"
        /\ code = SpawnFailedCode
  /\ calls' = [calls EXCEPT ![c] = OnClose(calls[c], code)]
  /\ UNCHANGED <<plugins, externals, listeners, loaded, loads, rest>>

\* The caller drops the promise of a call that is over.
Forget(c) ==
  /\ calls[c].pc = "settled"
  /\ calls[c].proc.state \in {"none", "closed"}
  /\ calls' = [calls EXCEPT ![c] = IdleCall]
  /\ UNCHANGED <<plugins, externals, listeners, loaded, loads, rest>>

(***************************************************************************)
(* Spec: the registry is filled and listeners subscribe at any time; one   *)
(* caller issues execute calls, one after the other.                       *)
(***************************************************************************)
Quiet == \A c \in CallIds : calls[c].pc = "idle"

\* the caller calls execute when its previous call is over
SequentialCall(c, pluginName, action, payload) ==
  Quiet /\ ExecuteCall(c, pluginName, action, payload)

Next ==
  \/ \E l \in ListenerPool : On(l)
  \/ \E p \in PluginPool : Register(p)
  \/ LoadExternal(Manifest)
  \/ \E c \in CallIds, n \in PluginNames, a \in ActionNames, p \in Payloads :
       SequentialCall(c, n, a, p)
  \/ \E c \in CallIds : Resume(c)
  \/ \E c \in CallIds, d \in OutChunks : ProcStdout(c, d)
  \/ \E c \in CallIds : ProcEcho(c)
  \/ \E c \in CallIds, d \in ErrChunks : ProcStderr(c, d)
  \/ \E c \in CallIds : ProcError(c)
  \/ \E c \in CallIds, code \in ExitCodes \cup {SpawnFailedCode} : ProcClose(c, code)
  \/ \E c \in CallIds : Forget(c)

Spec == Init /\ [][Next]_vars

(***************************************************************************)
(* SpecLoad: the loader and the registry alone.  loadAll is called on what *)
(* the plugin directory holds, listeners subscribe and plugins are         *)
(* registered directly at any time.                                        *)
(***************************************************************************)
NextLoad ==
  \/ \E l \in ListenerPool : On(l)
  \/ \E p \in RegisterPool : Register(p)
  \/ \E tree \in Trees : LoadAll(tree)

SpecLoad == Init /\ [][NextLoad]_vars

(***************************************************************************)
(* SpecConcurrent: the server has started (loadAll is over, the WebSocket  *)
(* handler has subscribed) and callers issue execute calls without waiting *)
(* for one another; the subprocesses' events interleave freely.            *)
(***************************************************************************)
InitConcurrent ==
  \E tree \in StartupTrees :
    LET w == LoadAllWalk(EmptyMap, EmptyMap, <<>>, tree)
    IN /\ plugins = w.plugins
       /\ externals = w.externals
       /\ listeners = <<[event |-> "pluginExecuted", throws |-> FALSE]>>
       /\ calls = [c \in CallIds |-> IdleCall]
       /\ loaded = w.events
       /\ loads = <<Load(tree, EmptyMap, EmptyMap, w)>>
       /\ Alone

NextConcurrent ==
  \/ \E c \in CallIds, n \in PluginNames, a \in ConcurrentActions, p \in ConcurrentPayloads :
       ExecuteCall(c, n, a, p)
  \/ \E c \in CallIds : Resume(c)
  \/ \E c \in CallIds : ProcEcho(c)
  \/ \E c \in CallIds, d \in ErrChunks : ProcStderr(c, d)
  \/ \E c \in CallIds : ProcError(c)
  \/ \E c \in CallIds, code \in ConcurrentCodes \cup {SpawnFailedCode} : ProcClose(c, code)
  \/ \E c \in CallIds : Forget(c)

SpecConcurrent == InitConcurrent /\ [][NextConcurrent]_vars

\* what the callers of SpecSettle pass: a name that is in-process or external by
\* the directory, and an external one
SettleNames == {"tool", "ext"}
SettlePayloads == {EmptyObject}

\* The calls of SpecConcurrent, each promise kept by its caller.
NextSettle ==
  \/ \E c \in CallIds, n \in SettleNames, a \in ConcurrentActions, p \in SettlePayloads :
       ExecuteCall(c, n, a, p)
  \/ \E c \in CallIds : Resume(c)
  \/ \E c \in CallIds : ProcEcho(c)
  \/ \E c \in CallIds, d \in ErrChunks : ProcStderr(c, d)
  \/ \E c \in CallIds : ProcError(c)
  \/ \E c \in CallIds, code \in ConcurrentCodes \cup {SpawnFailedCode} : ProcClose(c, code)

\* With what the run time and the operating system see to: a continuation that can
\* run does, a subprocess that can write or end does, a spawn that failed is reported.
SpecSettle ==
  /\ InitConcurrent /\ [][NextSettle]_vars
  /\ \A c \in CallIds :
       /\ WF_vars(Resume(c))
       /\ WF_vars(\/ ProcEcho(c)
                  \/ ProcError(c)
                  \/ \E code \in ConcurrentCodes \cup {SpawnFailedCode} : ProcClose(c, code))

(***************************************************************************)
(* The EventBus with any listeners: some throw.                            *)
(***************************************************************************)
MaxSubscribers == 3

\* the listeners a subscriber may pass to on(): for either plugin event, one that
\* returns and one that throws
BusListeners ==
  {[event |-> e, throws |-> t] : e \in {"pluginLoaded", "pluginExecuted"}, t \in BOOLEAN}

\* on(event, listener): this.emitter.on(event, listener) appends the listener
OnBus(l) ==
  /\ Len(listeners) < MaxSubscribers
  /\ listeners' = Append(listeners, l)
  /\ UNCHANGED <<plugins, externals, calls, loaded, loads, rest>>

RECURSIVE Invocations(_, _, _, _)
\* emitter.emit(event, ...args) from listener i on: the listeners of event are called
\* with args in the order of the listener array; a listener that throws ends the emit,
\* its exception being emit's
Invocations(ls, i, event, args) ==
  IF i > Len(ls) THEN <<>>
  ELSE IF ls[i].event # event THEN Invocations(ls, i + 1, event, args)
  ELSE IF ls[i].throws THEN <<[listener |-> i, args |-> args]>>
  ELSE <<[listener |-> i, args |-> args]>> \o Invocations(ls, i + 1, event, args)

\* the events a caller of the bus emits
BusEvents ==
  {[name |-> "pluginLoaded", args |-> <<"sample">>],
   [name |-> "pluginExecuted", args |-> <<"sample", echo>>],
   [name |-> "started", args |-> <<>>]}

\* emit(event, ...args): this.emitter.emit(event, ...args)
Emit(e) ==
  /\ bus' = [event |-> e.name, args |-> e.args, listeners |-> listeners,
             invoked |-> Invocations(listeners, 1, e.name, e.args),
             threw |-> EmitThrows(listeners, e.name)]
  /\ UNCHANGED <<plugins, externals, listeners, calls, loaded, loads,
                 server, requests, task, jobs, limiter, client>>

\* what the caller of execute asks for in SpecBus
BusPayloads == {ObjX1, Undefined}

NextBus ==
  \/ \E l \in BusListeners : OnBus(l)
  \/ \E e \in BusEvents : Emit(e)
  \/ Register(samplePlugin)
  \/ \E c \in CallIds, p \in BusPayloads : SequentialCall(c, "sample", echo, p)
  \/ \E c \in CallIds : Resume(c)

SpecBus == Init /\ [][NextBus]_vars

(***************************************************************************)
(* SpecOverwrite: in-process plugins are registered at any time and a      *)
(* plugin that takes the sample plugin's name, with other actions, is      *)
(* registered while an execute of the sample plugin waits for its action.  *)
(***************************************************************************)
\* register(plugin) called between the call of an action of the plugin of that name
\* and the continuation of execute
RegisterDuringCall(plugin) ==
  /\ \E c \in CallIds : calls[c].pc = "awaitFn" /\ calls[c].pluginName = plugin.name
  /\ Register(plugin)

OverwritePayloads == {Undefined, ObjX1}

NextOverwrite ==
  \/ \E l \in ListenerPool : On(l)
  \/ \E p \in PluginPool : Register(p)
  \/ RegisterDuringCall(sampleRevised)
  \/ \E c \in CallIds, n \in {"sample", "tool"}, a \in ActionNames, p \in OverwritePayloads :
       SequentialCall(c, n, a, p)
  \/ \E c \in CallIds : Resume(c)
  \/ \E c \in CallIds : Forget(c)

SpecOverwrite == Init /\ [][NextOverwrite]_vars

(***************************************************************************)
(* The host: server.ts, the WebSocket broadcaster and POST /mcp/execute.   *)
(***************************************************************************)
\* createWsHandler: the three listeners it subscribes, in its order; each sends the
\* event to every connected client
WsListeners ==
  <<[event |-> "pluginLoaded", throws |-> FALSE],
    [event |-> "pluginExecuted", throws |-> FALSE],
    [event |-> "started", throws |-> FALSE]>>

\* data = JSON.stringify({type, name, action}); wss.clients.forEach(c => c.send(data))
Message(e) == [type |-> e.name, args |-> e.args]

\* what the broadcaster sends when the bus is given events, ls being the listeners
\* subscribed at the time: one message per event its listener is invoked for
Broadcasts(ls, events) ==
  LET heard == SelectSeq(events, LAMBDA e : Invocations(ls, 1, e.name, e.args) # <<>>)
  IN [k \in 1..Len(heard) |-> Message(heard[k])]

\* Variant of StartLoadAll: a rejection of loadAll is caught and startup goes on.
StartLoadAllLenient(tree) ==
  /\ server.pc = "off"
  /\ LET w == LoadAllWalk(plugins, externals, listeners, tree)
     IN /\ plugins' = w.plugins
        /\ externals' = w.externals
        /\ loaded' = w.events
        /\ loads' = Append(loads, Load(tree, plugins, externals, w))
        /\ server' = [pc |-> "loaded",
                      sent |-> server.sent \o Broadcasts(listeners, w.events)]
  /\ UNCHANGED <<listeners, calls, bus, requests, task, jobs, limiter, client>>

\* `await plugins.loadAll()` of server.ts, the plugin directory holding tree; a
\* rejection of the top-level await ends the process
StartLoadAll(tree) ==
  /\ server.pc = "off"
  /\ LET w == LoadAllWalk(plugins, externals, listeners, tree)
     IN /\ plugins' = w.plugins
        /\ externals' = w.externals
        /\ loaded' = w.events
        /\ loads' = Append(loads, Load(tree, plugins, externals, w))
        /\ server' = [pc |-> IF w.err = NoErr THEN "loaded" ELSE "exited",
                      sent |-> server.sent \o Broadcasts(listeners, w.events)]
  /\ UNCHANGED <<listeners, calls, bus, requests, task, jobs, limiter, client>>

\* container.register(...); app.use(createRoutes(container)); app.use(errorHandler)
MountRoutes ==
  /\ server.pc = "loaded"
  /\ server' = [server EXCEPT !.pc = "routes"]
  /\ UNCHANGED <<plugins, externals, listeners, calls, loaded, loads,
                 bus, requests, task, jobs, limiter, client>>

\* createWsHandler(server, events)
CreateWsHandler ==
  /\ server.pc = "routes"
  /\ listeners' = listeners \o WsListeners
  /\ server' = [server EXCEPT !.pc = "ws"]
  /\ UNCHANGED <<plugins, externals, calls, loaded, loads, bus, requests, task, jobs, limiter, client>>

\* server.listen(port, () => { ...; events.emit('started') })
Listen ==
  /\ server.pc = "ws"
  /\ server' = [pc |-> "listening",
                sent |-> server.sent
                           \o Broadcasts(listeners, <<[name |-> "started", args |-> <<>>]>>)]
  /\ UNCHANGED <<plugins, externals, listeners, calls, loaded, loads,
                 bus, requests, task, jobs, limiter, client>>

\* JSON.stringify of an object leaves out the members whose value is undefined
OmitUndefined(v) ==
  LET keep == SelectSeq([i \in 1..Len(v.keys) |-> i], LAMBDA i : v.kids[i].t # "undefined")
  IN JObj([k \in 1..Len(keep) |-> v.keys[keep[k]]], [k \in 1..Len(keep) |-> v.kids[keep[k]]])

\* res.status(status).json(body): the status and the text written
ResJson(status, body) == [status |-> status, body |-> JSONstringify(OmitUndefined(body))]

\* Variant of errorHandler: the message of the error is not passed on.
errorHandlerGeneric(err) ==
  ResJson(500, JObj(<<<<"o", "k">>, <<"e", "r", "r", "o", "r">>>>,
                    <<JFalse, JStr(<<"i", "n", "t", "e", "r", "n", "a", "l", "_",
                                     "e", "r", "r", "o", "r">>)>>))

\* errorHandler(err, req, res, next): the errors of the engine are Error objects,
\* which have a message that is a string and no status
errorHandler(err) ==
  ResJson(500, JObj(<<<<"o", "k">>, <<"e", "r", "r", "o", "r">>>>,
                    <<JFalse, JStr(err.message)>>))

\* the handler of POST /mcp/execute after `await mcp.execute(...)`:
\* res.json({ok: true, result}), or next(e) and with it the errorHandler
Reply(outcome) ==
  IF outcome.st = "resolved"
  THEN ResJson(200, JObj(<<<<"o", "k">>, <<"r", "e", "s", "u", "l", "t">>>>,
                         <<JTrue, outcome.v>>))
  ELSE errorHandler(outcome.err)

\* POST /mcp/execute with a body the schema accepts: the handler calls
\* mcp.execute(plugin, action, payload) and awaits it
PostExecute(c, pluginName, action, payload) ==
  /\ server.pc = "listening"
  /\ calls[c].pc = "idle" /\ requests[c].state = "none"
  /\ \A d \in 1..(c - 1) : calls[d].pc # "idle"
  /\ \E r \in Behaviours(plugins, pluginName, action, payload) :
       \E started \in (IF Resolve(plugins, externals, pluginName) = "external"
                       THEN BOOLEAN ELSE {TRUE}) :
         calls' = [calls EXCEPT ![c] =
                     Dispatch(NewCall(pluginName, action, payload),
                              plugins, externals, listeners, r, started)]
  /\ requests' = [requests EXCEPT ![c] = [state |-> "waiting", responses |-> <<>>]]
  /\ server' = [server EXCEPT !.sent = @ \o Broadcasts(listeners, calls'[c].emitted)]
  /\ UNCHANGED <<plugins, externals, listeners, loaded, loads, bus, task, jobs, limiter, client>>

\* the in-process call of a request goes on after its await
ServerResume(c) ==
  /\ server.pc = "listening"
  /\ calls[c].pc = "awaitFn"
  /\ calls' = [calls EXCEPT ![c] = Finish(calls[c], listeners)]
  /\ server' = [server EXCEPT !.sent =
                  @ \o Broadcasts(listeners,
                                  SubSeq(calls'[c].emitted, Len(calls[c].emitted) + 1,
                                         Len(calls'[c].emitted)))]
  /\ UNCHANGED <<plugins, externals, listeners, loaded, loads, bus, requests, task, jobs, limiter, client>>

\* the handler goes on after `await mcp.execute(...)` and writes the response
Respond(c) ==
  /\ requests[c].state = "waiting"
  /\ calls[c].pc = "settled"
  /\ requests' = [requests EXCEPT ![c] =
                    [state |-> "done",
                     responses |-> Append(requests[c].responses, Reply(calls[c].outcome))]]
  /\ UNCHANGED <<plugins, externals, listeners, calls, loaded, loads,
                 bus, server, task, jobs, limiter, client>>

\* the request is over and its subprocess, if any, has closed
EndRequest(c) ==
  /\ requests[c].state = "done"
  /\ calls[c].proc.state \in {"none", "closed"}
  /\ calls' = [calls EXCEPT ![c] = IdleCall]
  /\ requests' = [requests EXCEPT ![c] = NoRequest]
  /\ UNCHANGED <<plugins, externals, listeners, loaded, loads, bus, server, task, jobs, limiter, client>>

\* the plugin directories the server is started on: those of SpecConcurrent, one
\* whose manifest is not JSON, and none
ServerTrees ==
  StartupTrees \cup {Tree(TRUE, <<samplePluginTs>>, ManifestFile(TRUE, FALSE, <<>>)),
                     Tree(FALSE, <<>>, NoManifest)}

\* what the clients post: payload is optional
HttpActions == {echo, fail}
HttpPayloads == {Undefined, ObjX1}

\* the messages the broadcaster may have sent when a further request is posted
MaxSent == 3

\* the client posts a request when its previous one is over
SequentialPost(c, pluginName, action, payload) ==
  /\ \A d \in CallIds : requests[d].state = "none"
  /\ Len(server.sent) < MaxSent
  /\ PostExecute(c, pluginName, action, payload)

NextServer ==
  \/ \E tree \in ServerTrees : StartLoadAll(tree)
  \/ MountRoutes
  \/ CreateWsHandler
  \/ Listen
  \/ \E c \in CallIds, n \in PluginNames, a \in HttpActions, p \in HttpPayloads :
       SequentialPost(c, n, a, p)
  \/ \E c \in CallIds : ServerResume(c)
  \/ \E c \in CallIds : ProcEcho(c)
  \/ \E c \in CallIds, d \in ErrChunks : ProcStderr(c, d)
  \/ \E c \in CallIds : ProcError(c)
  \/ \E c \in CallIds, code \in ConcurrentCodes \cup {SpawnFailedCode} : ProcClose(c, code)
  \/ \E c \in CallIds : Respond(c)
  \/ \E c \in CallIds : EndRequest(c)

SpecServer == Init /\ [][NextServer]_vars

(***************************************************************************)
(* TaskService.executeTask(taskId, pluginService) on one Task document.    *)
(***************************************************************************)
TaskNotFound == <<"T", "a", "s", "k", " ", "n", "o", "t", " ", "f", "o", "u", "n", "d">>
TaskMissing ==
  <<"T", "a", "s", "k", " ", "m", "i", "s", "s", "i", "n", "g", " ", "p", "l", "u", "g", "i", "n",
    " ", "o", "r", " ", "a", "c", "t", "i", "o", "n">>

\* new Date(Date.now() + 60000)
RetryDelay == 60000

\* what Date.now() may return
Times == {1000, 2000}

\* task.<path> = value
Assign(job, path, value) ==
  [job EXCEPT !.doc = [@ EXCEPT ![path] = value], !.dirty = @ \cup {path}]

\* await task.save(): the paths modified since the document was loaded or saved are
\* written to the stored document
Save(stored, job) ==
  [path \in DOMAIN stored |-> IF path \in job.dirty THEN job.doc[path] ELSE stored[path]]

\* const task = await Task.findById(taskId)
ExecuteTask(c, service) ==
  /\ jobs[c].pc = "idle" /\ calls[c].pc = "idle"
  /\ \A d \in 1..(c - 1) : jobs[d].pc # "idle"
  /\ jobs' = [jobs EXCEPT ![c] =
                [IdleJob EXCEPT !.pc = "found", !.service = service,
                                !.found = task, !.doc = task]]
  /\ UNCHANGED <<plugins, externals, listeners, calls, loaded, loads,
                 bus, server, requests, task, limiter, client>>

\* the checks of the document, then status and startedAt are set and saved
TaskBegin(c, t) ==
  /\ jobs[c].pc = "found"
  /\ LET job == jobs[c]
         begun == Assign(Assign(job, "status", "in-progress"), "startedAt", t)
     IN IF ~job.doc.exists
        THEN /\ jobs' = [jobs EXCEPT ![c] = [job EXCEPT !.pc = "done", !.outcome = "rejected",
                                                       !.err = Error(TaskNotFound)]]
             /\ task' = task
        ELSE IF job.doc.plugin = "" \/ job.doc.action = <<>>
        THEN /\ jobs' = [jobs EXCEPT ![c] = [job EXCEPT !.pc = "done", !.outcome = "rejected",
                                                       !.err = Error(TaskMissing)]]
             /\ task' = task
        ELSE /\ task' = Save(task, begun)
             /\ jobs' = [jobs EXCEPT ![c] = [begun EXCEPT !.pc = "begun", !.dirty = {}]]
  /\ UNCHANGED <<plugins, externals, listeners, calls, loaded, loads,
                 bus, server, requests, limiter, client>>

\* the catch of the inner try up to its save: status, error, completedAt and
\* retryCount are set and saved
Caught(job, err, t) ==
  [Assign(Assign(Assign(Assign(job, "status", "failed"),
                        "error", JStr(err.message)),
                 "completedAt", t),
          "retryCount", job.doc.retryCount + 1)
   EXCEPT !.err = err]

\* pluginService.execute(task.plugin, task.action, task.payload); with no plugin
\* service the property access throws inside the inner try
TaskCall(c, t) ==
  /\ jobs[c].pc = "begun"
  /\ IF jobs[c].service
     THEN /\ \E r \in Behaviours(plugins, jobs[c].doc.plugin, jobs[c].doc.action,
                                  jobs[c].doc.payload) :
               \E started \in (IF Resolve(plugins, externals, jobs[c].doc.plugin) = "external"
                               THEN BOOLEAN ELSE {TRUE}) :
                 calls' = [calls EXCEPT ![c] =
                             Dispatch(NewCall(jobs[c].doc.plugin, jobs[c].doc.action,
                                              jobs[c].doc.payload),
                                      plugins, externals, listeners, r, started)]
          /\ jobs' = [jobs EXCEPT ![c] = [@ EXCEPT !.pc = "executing", !.executed = @ + 1]]
          /\ task' = task
     ELSE LET failed == Caught(jobs[c], Err("TypeError", CannotRead, ""), t)
          IN /\ task' = Save(task, failed)
             /\ jobs' = [jobs EXCEPT ![c] = [failed EXCEPT !.pc = "recorded", !.dirty = {}]]
             /\ calls' = calls
  /\ UNCHANGED <<plugins, externals, listeners, loaded, loads, bus, server, requests, limiter, client>>

\* after `await pluginService.execute(...)`: the result is stored and saved, or the
\* error is caught
TaskSettle(c, t) ==
  /\ jobs[c].pc = "executing" /\ calls[c].pc = "settled"
  /\ LET job == jobs[c]
         completed == Assign(Assign(Assign(job, "status", "completed"),
                                    "result", calls[c].outcome.v),
                             "completedAt", t)
         failed == Caught(job, calls[c].outcome.err, t)
     IN IF calls[c].outcome.st = "resolved"
        THEN /\ task' = Save(task, completed)
             /\ jobs' = [jobs EXCEPT ![c] = [completed EXCEPT !.pc = "completed", !.dirty = {}]]
        ELSE /\ task' = Save(task, failed)
             /\ jobs' = [jobs EXCEPT ![c] = [failed EXCEPT !.pc = "recorded", !.dirty = {}]]
  /\ UNCHANGED <<plugins, externals, listeners, calls, loaded, loads,
                 bus, server, requests, limiter, client>>

\* return task (this.events is not set: the controller's TaskService has none)
TaskReturn(c) ==
  /\ jobs[c].pc = "completed"
  /\ jobs' = [jobs EXCEPT ![c] = [@ EXCEPT !.pc = "done", !.outcome = "resolved"]]
  /\ UNCHANGED <<plugins, externals, listeners, calls, loaded, loads,
                 bus, server, requests, task, limiter, client>>

\* Variant of Retry: a task is rescheduled while retryCount <= maxRetries.
RetryOnceMore(job, t) ==
  IF job.doc.retryCount <= job.doc.maxRetries
  THEN [Assign(Assign(job, "status", "pending"), "scheduledAt", t + RetryDelay)
        EXCEPT !.now = t, !.pc = "rescheduled"]
  ELSE [job EXCEPT !.pc = "done", !.outcome = "rejected"]

\* if (task.retryCount < task.maxRetries) { status = 'pending'; scheduledAt = ...;
\* await task.save() }; throw execError
Retry(job, t) ==
  IF job.doc.retryCount < job.doc.maxRetries
  THEN [Assign(Assign(job, "status", "pending"), "scheduledAt", t + RetryDelay)
        EXCEPT !.now = t, !.pc = "rescheduled"]
  ELSE [job EXCEPT !.pc = "done", !.outcome = "rejected"]

\* after the save of the catch
TaskRetry(c, t) ==
  /\ jobs[c].pc = "recorded"
  /\ LET next == Retry(jobs[c], t)
     IN /\ task' = Save(task, next)
        /\ jobs' = [jobs EXCEPT ![c] = [next EXCEPT !.dirty = {}]]
  /\ UNCHANGED <<plugins, externals, listeners, calls, loaded, loads,
                 bus, server, requests, limiter, client>>

\* throw execError, after the save of the retry
TaskThrow(c) ==
  /\ jobs[c].pc = "rescheduled"
  /\ jobs' = [jobs EXCEPT ![c] = [@ EXCEPT !.pc = "done", !.outcome = "rejected"]]
  /\ UNCHANGED <<plugins, externals, listeners, calls, loaded, loads,
                 bus, server, requests, task, limiter, client>>

\* a Task document as create() stores it
NewTask(plugin, action, maxRetries) ==
  [NoTask EXCEPT !.exists = TRUE, !.plugin = plugin, !.action = action,
                 !.payload = ObjX1, !.maxRetries = maxRetries]

\* the tasks: one whose action succeeds, one whose action always fails, one run by
\* a subprocess, one without a plugin; and no task under the id
TaskPool ==
  {NewTask("sample", echo, 2), NewTask("tool", fail, 1), NewTask("tool", fail, 2),
   NewTask("ext", echo, 1), NewTask("", echo, 2), NoTask}

\* the plugin service is loaded, one task is stored
InitTask ==
  LET tree == Tree(TRUE, <<samplePluginTs, helperMjs, toolPluginJs>>,
                   ManifestFile(TRUE, TRUE, Manifest))
      w == LoadAllWalk(EmptyMap, EmptyMap, <<>>, tree)
  IN /\ plugins = w.plugins
     /\ externals = w.externals
     /\ listeners = <<>>
     /\ calls = [c \in CallIds |-> IdleCall]
     /\ loaded = w.events
     /\ loads = <<Load(tree, EmptyMap, EmptyMap, w)>>
     /\ bus = NoEmit
     /\ server = ServerOff
     /\ requests = [c \in CallIds |-> NoRequest]
     /\ task \in TaskPool
     /\ jobs = [c \in CallIds |-> IdleJob]
     /\ limiter = NoLimiter
     /\ client = NoClient

\* executeTask is called again when the call before it is over
SequentialTask(c, service) ==
  /\ \A d \in CallIds : jobs[d].pc \in {"idle", "done"}
  /\ ExecuteTask(c, service)

NextTask ==
  \/ \E c \in CallIds, service \in BOOLEAN : SequentialTask(c, service)
  \/ \E c \in CallIds, t \in Times : TaskBegin(c, t)
  \/ \E c \in CallIds, t \in Times : TaskCall(c, t)
  \/ \E c \in CallIds : Resume(c)
  \/ \E c \in CallIds, d \in ErrChunks : ProcStderr(c, d)
  \/ \E c \in CallIds : ProcError(c)
  \/ \E c \in CallIds, code \in ConcurrentCodes \cup {SpawnFailedCode} : ProcClose(c, code)
  \/ \E c \in CallIds, t \in Times : TaskSettle(c, t)
  \/ \E c \in CallIds : TaskReturn(c)
  \/ \E c \in CallIds, t \in Times : TaskRetry(c, t)
  \/ \E c \in CallIds : TaskThrow(c)

SpecTask == InitTask /\ [][NextTask]_vars

(***************************************************************************)
(* Rate limiter: rateLimit(opts) of middleware/rateLimit.ts, one bucket    *)
(* per key.  Times are in milliseconds and tokens in thousandths of a      *)
(* token, so that elapsedSec * refillPerSec is a whole number.             *)
(***************************************************************************)
\* opts.capacity: the server passes 60; the model's buckets hold fewer tokens
capacity == 2

\* opts.refillPerSec
refillPerSec == 1

\* (nowMs - bucket.lastRefillMs) / 1000: milliseconds per second, and thousandths per token
Thousand == 1000

\* the seconds the clock runs for
MaxElapsed == 3

Min(a, b) == IF a < b THEN a ELSE b

\* const ip = req.ip || req.socket.remoteAddress || 'unknown'; keyMode is 'ip'
getKey(req) ==
  IF req.ip # "" THEN req.ip
  ELSE IF req.remoteAddress # "" THEN req.remoteAddress
  ELSE "unknown"

\* Variant of refill: the bucket is not capped.
refillUncapped(bucket, nowMs) ==
  LET elapsed == nowMs - bucket.lastRefillMs
  IN IF elapsed <= 0 THEN bucket
     ELSE [tokens |-> bucket.tokens + elapsed * refillPerSec, lastRefillMs |-> nowMs]

\* refill(bucket, nowMs)
refill(bucket, nowMs) ==
  LET elapsed == nowMs - bucket.lastRefillMs
  IN IF elapsed <= 0 THEN bucket
     ELSE [tokens |-> Min(capacity * Thousand, bucket.tokens + elapsed * refillPerSec),
           lastRefillMs |-> nowMs]

\* ensureBucket(key, nowMs): the buckets, with a full one for a key that had none
ensureBucket(buckets, key, nowMs) ==
  IF key \in DOMAIN buckets THEN buckets
  ELSE MapSet(buckets, key, [tokens |-> capacity * Thousand, lastRefillMs |-> nowMs])

\* secondsUntilNextToken(bucket): Math.ceil(deficit / refillPerSec)
secondsUntilNextToken(bucket) ==
  IF bucket.tokens >= Thousand THEN 0
  ELSE ((Thousand - bucket.tokens) + refillPerSec * Thousand - 1) \div (refillPerSec * Thousand)

\* Variant of Admits: a fraction of a token is enough.
AdmitsFraction(bucket) == bucket.tokens > 0

\* if (bucket.tokens >= 1)
Admits(bucket) == bucket.tokens >= Thousand

\* The middleware, on a request: the bucket of the request's key is made or refilled;
\* with a whole token in it the token is taken and next() called (recorded as status
\* 0), otherwise 429 is sent with Retry-After.  remaining is RateLimit-Remaining.
Middleware(req) ==
  /\ LET now == limiter.now
         key == getKey(req)
         made == ensureBucket(limiter.buckets, key, now)
         bucket == refill(made[key], now)
         admit == Admits(bucket)
         after == IF admit THEN [bucket EXCEPT !.tokens = @ - Thousand] ELSE bucket
     IN limiter' =
          [limiter EXCEPT
             !.buckets = MapSet(made, key, after),
             !.last = [key |-> key, admitted |-> admit,
                       status |-> IF admit THEN 0 ELSE 429,
                       remaining |-> after.tokens \div Thousand,
                       retryAfter |-> IF admit THEN 0 ELSE secondsUntilNextToken(bucket)],
             !.window = IF admit /\ limiter.window.key = key
                        THEN [@ EXCEPT !.admitted = @ + 1] ELSE @]
  /\ UNCHANGED <<plugins, externals, listeners, calls, loaded, loads,
                 bus, server, requests, task, jobs, client>>

\* Date.now() grows by d milliseconds
Tick(d) ==
  /\ limiter.now + d <= MaxElapsed * Thousand
  /\ limiter' = [limiter EXCEPT !.now = @ + d]
  /\ UNCHANGED <<plugins, externals, listeners, calls, loaded, loads,
                 bus, server, requests, task, jobs, client>>

\* the observer starts to count the requests of one key that are let through
Watch(key) ==
  /\ limiter.window.key = ""
  /\ limiter' = [limiter EXCEPT !.window = [key |-> key, start |-> limiter.now, admitted |-> 0]]
  /\ UNCHANGED <<plugins, externals, listeners, calls, loaded, loads,
                 bus, server, requests, task, jobs, client>>

\* the requests: one whose req.ip is set, one known by its socket's address only
LimitedRequests ==
  {[ip |-> "10.0.0.1", remoteAddress |-> "10.0.0.1"],
   [ip |-> "", remoteAddress |-> "10.0.0.2"]}

\* by how much Date.now() differs between two requests
ClockSteps == {500, 1000}

NextLimit ==
  \/ \E req \in LimitedRequests : Middleware(req)
  \/ \E d \in ClockSteps : Tick(d)
  \/ \E req \in LimitedRequests : Watch(getKey(req))

SpecLimit == Init /\ [][NextLimit]_vars

(***************************************************************************)
(* WebSocketClient of websocket/client.ts.  sockets are the WebSocket      *)
(* objects the client has made, each with the client's four handlers; ws   *)
(* is the index of the one this.ws refers to, 0 for null; timers counts    *)
(* the reconnect timeouts that are pending.  disconnected, scheduled and   *)
(* opened record that disconnect() was called and the reconnects           *)
(* scheduled and the sockets made since then.                              *)
(***************************************************************************)
\* private maxReconnectAttempts = 5
maxReconnectAttempts == 5

\* the sockets one client makes
MaxSockets == 7

others == <<plugins, externals, listeners, calls, loaded, loads,
            bus, server, requests, task, jobs, limiter>>

\* connect(): this.ws = new WebSocket(this.url), with its handlers
connect(cl) ==
  [cl EXCEPT !.sockets = Append(@, "connecting"), !.ws = Len(cl.sockets) + 1,
             !.opened = IF cl.disconnected THEN @ + 1 ELSE @]

\* handleReconnect(): below the maximum the attempt is counted and a timeout set
handleReconnect(cl) ==
  IF cl.reconnectAttempts < maxReconnectAttempts
  THEN [cl EXCEPT !.reconnectAttempts = @ + 1, !.timers = @ + 1,
                  !.scheduled = IF cl.disconnected THEN @ + 1 ELSE @]
  ELSE cl

\* the application calls connect() on its new client
ClientConnect ==
  /\ client.sockets = <<>> /\ ~client.disconnected
  /\ client' = connect(client)
  /\ UNCHANGED others

\* 'open' of a socket: this.reconnectAttempts = 0; resolve()
SocketOpen(i) ==
  /\ client.sockets[i] = "connecting"
  /\ client' = [client EXCEPT !.sockets[i] = "open", !.reconnectAttempts = 0]
  /\ UNCHANGED others

\* 'error' of a socket whose connection failed: reject(error); 'close' follows
SocketError(i) ==
  /\ client.sockets[i] = "connecting"
  /\ client' = [client EXCEPT !.sockets[i] = "errored"]
  /\ UNCHANGED others

\* 'close' of a socket (after a failure, after its close(), or because the server
\* or the network ended the connection): this.handleReconnect()
SocketClose(i) ==
  /\ client.sockets[i] \in {"open", "errored", "closing"}
  /\ client' = handleReconnect([client EXCEPT !.sockets[i] = "closed"])
  /\ UNCHANGED others

\* the timeout of handleReconnect fires: this.connect().catch(console.error)
ReconnectTimer ==
  /\ client.timers > 0
  /\ Len(client.sockets) < MaxSockets
  /\ client' = connect([client EXCEPT !.timers = @ - 1])
  /\ UNCHANGED others

\* what close() does to a socket: the closing handshake of an open one begins, a
\* connection not yet established is abandoned with an 'error'; 'close' follows
Close(state) ==
  CASE state = "open" -> "closing"
    [] state = "connecting" -> "errored"
    [] OTHER -> state

\* disconnect(): if (this.ws) { this.ws.close(); this.ws = null }
disconnect ==
  /\ client.sockets # <<>> /\ ~client.disconnected
  /\ client' = IF client.ws # 0
               THEN [client EXCEPT !.sockets[client.ws] = Close(@), !.ws = 0,
                                   !.disconnected = TRUE]
               ELSE [client EXCEPT !.disconnected = TRUE]
  /\ UNCHANGED others

NextClient ==
  \/ ClientConnect
  \/ \E i \in 1..Len(client.sockets) : SocketOpen(i)
  \/ \E i \in 1..Len(client.sockets) : SocketError(i)
  \/ \E i \in 1..Len(client.sockets) : SocketClose(i)
  \/ ReconnectTimer
  \/ disconnect

SpecClient == Init /\ [][NextClient]_vars

(***************************************************************************)
(* SpecTaskConcurrent: callers with a plugin service call executeTask on   *)
(* the stored task without waiting for one another, each call working on   *)
(* the document it loaded.                                                 *)
(***************************************************************************)
\* the tasks of the concurrent callers: one whose action always fails, one whose
\* action succeeds
ConcurrentTasks == {NewTask("tool", fail, 2), NewTask("sample", echo, 2)}

InitTaskConcurrent == InitTask /\ task \in ConcurrentTasks

NextTaskConcurrent ==
  \/ \E c \in CallIds : ExecuteTask(c, TRUE)
  \/ \E c \in CallIds, t \in Times : TaskBegin(c, t)
  \/ \E c \in CallIds, t \in Times : TaskCall(c, t)
  \/ \E c \in CallIds : Resume(c)
  \/ \E c \in CallIds, t \in Times : TaskSettle(c, t)
  \/ \E c \in CallIds : TaskReturn(c)
  \/ \E c \in CallIds, t \in Times : TaskRetry(c, t)
  \/ \E c \in CallIds : TaskThrow(c)

SpecTaskConcurrent == InitTaskConcurrent /\ [][NextTaskConcurrent]_vars

(***************************************************************************)
(* Properties.                                                             *)
(***************************************************************************)
Started(call) == call.pc # "idle"
Settled(call) == call.pc = "settled"
OwnEvents(call) ==
  {i \in 1..Len(call.emitted) :
     call.emitted[i] = Event("pluginExecuted", call.pluginName, call.action)}
LastArg(call) == call.proc.argv[Len(call.proc.argv)]
Stdout(call) == trim(Flatten(call.chunks))

\* C1: an execute of an action that a registered in-process plugin defines, whose
\* callable returned a value (time, synchronous) or a promise that resolved to one
\* (echo and process, asynchronous), resolves with exactly that value; the sample
\* plugin's echo resolves with the payload it was given.
C1_PassThrough ==
  \A c \in CallIds :
    LET call == calls[c]
    IN Settled(call) /\ call.inPlugins /\ call.own
         /\ call.ret.kind \in {"return", "resolve"}
       => /\ call.outcome = Resolved(call.ret.v)
          /\ call.fn = "echo" => call.outcome = Resolved(call.payload)
          /\ call.fn = "time" => call.outcome.v.t = "string" /\ call.outcome.v.s \in ClockTexts
          /\ call.fn = "process" => call.outcome = Resolved(Success)

C1_Witness ==
  \E c \in CallIds :
    /\ Settled(calls[c]) /\ calls[c].inPlugins /\ calls[c].own
    /\ calls[c].fn = "echo"
    /\ calls[c].payload = ObjNested
    /\ calls[c].outcome = Resolved(ObjNested)
    /\ \E i \in 1..Len(listeners) : listeners[i].event = "pluginExecuted"

\* C2: an execute of a name that is in neither map is over at once, rejected with
\* 'plugin not found', having emitted no event, called no action and spawned nothing.
C2_PluginNotFound ==
  \A c \in CallIds :
    LET call == calls[c]
    IN Started(call) /\ ~call.inPlugins /\ ~call.inExternals
       => /\ Settled(call)
          /\ call.outcome = Rejected(Error(PluginNotFound))
          /\ call.emitted = <<>>
          /\ call.fn = ""
          /\ call.spawned = 0 /\ call.proc = NoProc

C2_Witness ==
  \E c \in CallIds :
    /\ Settled(calls[c]) /\ ~calls[c].inPlugins /\ ~calls[c].inExternals
    /\ calls[c].outcome.st = "rejected"
    /\ calls[c].payload = ObjX1
    /\ DOMAIN plugins # {} /\ DOMAIN externals # {}
    /\ listeners # <<>>

\* C3: an execute of an action that the registered in-process plugin's action map
\* does not hold is rejected with 'action not found' and calls no callable.
C3_ActionNotFound ==
  \A c \in CallIds :
    LET call == calls[c]
    IN Started(call) /\ call.inPlugins /\ ~call.own
       => /\ Settled(call)
          /\ call.outcome = Rejected(Error(ActionNotFound))
          /\ call.fn = ""

\* C4: an execute of a name registered in both maps never spawns the external
\* command, and is rejected with 'action not found' when the in-process plugin's
\* action map does not hold the action.
C4_InProcessShadows ==
  \A c \in CallIds :
    LET call == calls[c]
    IN Started(call) /\ call.inPlugins /\ call.inExternals
       => /\ call.spawned = 0 /\ call.proc = NoProc
          /\ ~call.own => Settled(call) /\ call.outcome = Rejected(Error(ActionNotFound))

\* What holds of a name registered in-process, whatever the action: no subprocess.
InProcessNeverSpawns ==
  \A c \in CallIds :
    Started(calls[c]) /\ calls[c].inPlugins => calls[c].spawned = 0 /\ calls[c].proc = NoProc

\* C5: every execute that resolved, in-process or external, has emitted
\* pluginExecuted(pluginName, action) exactly once.
C5_EventPerSuccess ==
  \A c \in CallIds :
    Settled(calls[c]) /\ calls[c].outcome.st = "resolved"
      => Cardinality(OwnEvents(calls[c])) = 1

C7_StringifyPresent ==
  \A c \in CallIds :
    LET call == calls[c]
    IN call.spawned > 0
       => LastArg(call) = IF call.payload = Undefined THEN <<"{", "}">>
                          ELSE JSONstringify(call.payload)

\* C8: an execute of the echo executable (it printed its last argument and exited
\* with 0) with an object payload resolves with a value equal to the payload.
C8_EchoRoundTrip ==
  \A c \in CallIds :
    LET call == calls[c]
    IN /\ call.proc.command = "echo-json" /\ call.proc.state = "closed"
       /\ call.proc.code = JNum(0)
       /\ call.payload.t = "object"
       => call.outcome = Resolved(call.payload)

C8_Witness ==
  \E c \in CallIds :
    /\ calls[c].proc.command = "echo-json" /\ calls[c].proc.state = "closed"
    /\ calls[c].proc.code = JNum(0)
    /\ calls[c].payload = ObjNested
    /\ Len(calls[c].chunks) = 2
    /\ calls[c].outcome = Resolved(ObjNested)

\* C9: once the subprocess has closed with code 0 the execute is resolved, never
\* rejected: with the value the trimmed stdout decodes to when it is JSON, and with
\* the trimmed stdout as a string when it is not.
C9_DecodeOrRaw ==
  \A c \in CallIds :
    LET call == calls[c]
    IN call.proc.state = "closed" /\ call.proc.code = JNum(0)
       => /\ call.outcome.st = "resolved"
          /\ JSONparse(Stdout(call)).ok => call.outcome.v = JSONparse(Stdout(call)).v
          /\ ~JSONparse(Stdout(call)).ok => call.outcome.v = JStr(Stdout(call))
          /\ call.chunks = <<<<"h", "i">>>> => call.outcome.v = JStr(<<"h", "i">>)
          /\ call.chunks = <<<<"[", "1", ",">>, <<" ", "2", "]", "\n">>>>
               => call.outcome.v = JArr(<<JNum(1), JNum(2)>>)
          /\ call.chunks = <<<<" ", "2", "]", "\n">>>> => call.outcome.v = JStr(<<"2", "]">>)
          /\ call.chunks = <<>> => call.outcome.v = JStr(<<>>)

C9_Witness ==
  \E c \in CallIds :
    /\ calls[c].proc.state = "closed" /\ calls[c].proc.code = JNum(0)
    /\ calls[c].proc.command = "python"
    /\ ~JSONparse(Stdout(calls[c])).ok
    /\ Stdout(calls[c]) # Flatten(calls[c].chunks)
    /\ calls[c].errChunks # <<>>
    /\ calls[c].outcome = Resolved(JStr(Stdout(calls[c])))

\* C10: once a subprocess that was started has closed with an exit code other than
\* 0 the execute is rejected with an Error whose message is the whole of stderr,
\* untrimmed, or 'external plugin failed' when stderr is empty.
C10_NonZeroExit ==
  \A c \in CallIds :
    LET call == calls[c]
        text == Flatten(call.errChunks)
    IN /\ call.proc.state = "closed" /\ call.proc.started
       /\ call.proc.code.t = "number" /\ call.proc.code.n # 0
       => /\ call.outcome.st = "rejected"
          /\ call.outcome.err.name = "Error"
          /\ text # <<>> => call.outcome.err.message = text
          /\ text = <<>> => call.outcome.err.message = ExternalPluginFailed
          /\ call.errChunks = <<Boom \o <<"\n">>>>
               => call.outcome.err.message = <<"b", "o", "o", "m", "\n">>

C10_Witness ==
  \E c \in CallIds :
    /\ calls[c].proc.state = "closed" /\ calls[c].proc.started
    /\ calls[c].proc.code = JNum(2)
    /\ calls[c].errChunks # <<>> /\ calls[c].chunks # <<>>
    /\ calls[c].outcome.err.message = Boom \o <<"\n">>

\* C11: when the operating system cannot start the subprocess, the execute is rejected
\* with the system's error as spawn reported it (its message and its errno code),
\* never with an Error made from stderr or 'external plugin failed', and the close
\* event that follows the error leaves that rejection in place.
C11_SpawnErrorSurfaced ==
  \A c \in CallIds :
    LET call == calls[c]
    IN call.spawned > 0 /\ ~call.proc.started /\ call.proc.state \in {"errored", "closed"}
       => /\ call.outcome = Rejected(SpawnError)
          /\ call.outcome.err.code = "ENOENT"
          /\ call.outcome.err.message # ExternalPluginFailed
          /\ call.outcome.err.message # Flatten(call.errChunks)

C11_Witness ==
  \E c \in CallIds :
    /\ calls[c].spawned = 1 /\ ~calls[c].proc.started
    /\ calls[c].proc.state = "errored"
    /\ calls[c].proc.command = "python"
    /\ calls[c].outcome.st = "rejected"

\* The terminal outcome of an external invocation, from what its subprocess did.
Terminal(call) ==
  CASE call.outcome.st = "resolved" -> "Succeeded"
    [] call.outcome.st = "rejected" /\ call.proc.started -> "FailedNonZeroExit"
    [] call.outcome.st = "rejected" /\ ~call.proc.started -> "FailedSpawnError"
    [] OTHER -> "Pending"

External(call) == Started(call) /\ ~call.inPlugins /\ call.inExternals

\* C12: an execute that goes to an external plugin spawns one subprocess when it is
\* called and none afterwards; once its promise is settled the outcome never changes
\* whatever event arrives later (the close after an error), until the caller drops the
\* promise; and a settled invocation succeeded exactly when its subprocess was started
\* and closed with code 0, failed with the spawn error exactly when it was not started.
C12_SettledOnce ==
  [][\A c \in CallIds :
       LET a == calls[c]
           b == calls'[c]
       IN /\ External(b) => b.spawned = 1
          /\ Started(a) /\ Started(b) => b.spawned = a.spawned
          /\ a.outcome # Pending => b.outcome = a.outcome \/ b = IdleCall
          /\ External(b) /\ b.outcome # Pending =>
               /\ Terminal(b) = "Succeeded" <=> b.proc.started /\ b.proc.code = JNum(0)
               /\ Terminal(b) = "FailedSpawnError" <=> b.outcome = Rejected(SpawnError)
               /\ Terminal(b) = "FailedNonZeroExit" <=>
                    b.proc.started /\ b.proc.code # JNum(0)]_vars

C12_Witness ==
  \E c \in CallIds :
    /\ calls[c].spawned = 1 /\ ~calls[c].proc.started
    /\ calls[c].proc.state = "closed" /\ calls[c].proc.code = SpawnFailedCode
    /\ calls[c].outcome = Rejected(SpawnError)

\* C13: with execute calls in flight together, the step that settles an external
\* invocation is the close or the error event of the subprocess that invocation
\* spawned, it changes no other call, and a close settles it from that subprocess's
\* code and that invocation's own stdout and stderr chunks; what the echo executable
\* was given by one call is what that call resolves to, whatever the others were given.
C13_OwnSubprocessOnly ==
  [][\A c \in CallIds :
       LET a == calls[c]
           b == calls'[c]
       IN External(a) /\ External(b) /\ a.outcome = Pending /\ b.outcome # Pending
          => /\ a.proc.state \in {"running", "failing"}
             /\ b.proc.state \in {"closed", "errored"}
             /\ \A d \in CallIds \ {c} : calls'[d] = calls[d]
             /\ b.proc.state = "errored" => b.outcome = Rejected(SpawnError)
             /\ b.proc.state = "closed" =>
                  /\ b.outcome = CloseOutcome(b.proc.code, a.chunks, a.errChunks)
                  /\ b.chunks = a.chunks /\ b.errChunks = a.errChunks
                  /\ b.proc.command = "echo-json" =>
                       b.outcome = Resolved(OrElse(b.payload, EmptyObject))]_vars

\* two invocations of the echo executable given different payloads, the later one
\* over while the earlier one is still printing
C13_Witness ==
  \E c, d \in CallIds :
    /\ c < d
    /\ External(calls[c]) /\ External(calls[d])
    /\ calls[c].proc.command = "echo-json" /\ calls[d].proc.command = "echo-json"
    /\ calls[c].proc.state = "running" /\ calls[c].chunks # <<>>
    /\ calls[c].payload = EmptyObject
    /\ calls[d].proc.state = "closed" /\ calls[d].outcome = Resolved(JNum(1))

\* A call in flight has a step of its own to take: its continuation, or an event of
\* its subprocess.
CanGoOn(d) ==
  ENABLED (\/ Resume(d)
           \/ ProcEcho(d)
           \/ ProcError(d)
           \/ \E code \in ConcurrentCodes \cup {SpawnFailedCode} : ProcClose(d, code))

\* C16: the step in which one execute call is rejected (plugin not found, action not
\* found, an action that throws or rejects, a close with a code other than 0, a
\* spawn error) changes no other call and leaves both maps of the registry as they
\* were; the calls still in flight go on to settle with their own outcomes.
C16_FailureIsolated ==
  [][\A c \in CallIds :
       calls[c].outcome.st # "rejected" /\ calls'[c].outcome.st = "rejected"
       => /\ \A d \in CallIds \ {c} :
               /\ calls'[d] = calls[d]
               /\ calls[d].outcome = Pending /\ Started(calls[d]) => CanGoOn(d)
          /\ plugins' = plugins /\ externals' = externals]_vars

\* one call rejected while another was in flight, which then resolved
C16_Witness ==
  \E c, d \in CallIds :
    /\ c < d
    /\ Settled(calls[c]) /\ calls[c].outcome = Rejected(SpawnError)
    /\ calls[c].proc.state = "errored"
    /\ Settled(calls[d]) /\ calls[d].outcome = Resolved(EmptyObject)
    /\ calls[d].proc.state = "closed" /\ Len(calls[d].chunks) = 2

\* C14: the step that resolves an in-process execute is the continuation after the
\* await, so the callable's result is known by then, and that same step has given
\* the bus pluginExecuted(pluginName, action) as the last event of the call: in no
\* state is the promise resolved with the event still to come, and nothing is
\* emitted for the call once it is resolved.
C14_EventBeforeResolve ==
  [][\A c \in CallIds :
       LET a == calls[c]
           b == calls'[c]
           own == Event("pluginExecuted", b.pluginName, b.action)
       IN /\ b.inPlugins /\ a.outcome = Pending /\ b.outcome.st = "resolved"
            => /\ a.pc = "awaitFn" /\ a.ret.kind \in {"return", "resolve"}
               /\ b.outcome.v = a.ret.v
               /\ b.emitted = Append(a.emitted, own)
          /\ a.inPlugins /\ a.outcome.st = "resolved" /\ Started(b)
            => b.emitted = a.emitted]_vars

C14_Witness ==
  \E c \in CallIds :
    /\ Settled(calls[c]) /\ calls[c].inPlugins
    /\ calls[c].fn = "process"
    /\ calls[c].outcome = Resolved(Success)
    /\ calls[c].emitted = <<Event("pluginExecuted", "tool", progress),
                             Event("pluginExecuted", "tool", process)>>
    /\ \E i \in 1..Len(listeners) : listeners[i].event = "pluginExecuted"

Failed(call) == Settled(call) /\ call.inPlugins /\ call.ret.kind \in {"throw", "reject"}

\* C15: an in-process execute whose callable threw or returned a promise that was
\* rejected is rejected with that very error, and no pluginExecuted event was given to
\* the bus for the call (that no call changes the registry is ExecuteKeepsRegistry).
C15_FailedCallSilent ==
  \A c \in CallIds :
    Failed(calls[c])
    => /\ calls[c].outcome = Rejected(calls[c].ret.err)
       /\ calls[c].emitted = <<>>

\* What of C15 the code keeps: the error is passed on as it is, and the dispatcher's
\* own event, pluginExecuted(pluginName, action), is not emitted.
FailedCallKeepsError ==
  \A c \in CallIds :
    Failed(calls[c])
    => /\ calls[c].outcome = Rejected(calls[c].ret.err)
       /\ OwnEvents(calls[c]) = {}

\* A call leaves both maps of the registry alone, whatever its outcome.
ExecuteKeepsRegistry ==
  [][(\E c \in CallIds : calls'[c] # calls[c])
       => plugins' = plugins /\ externals' = externals]_vars

\* the subprocesses that are running
Live == {c \in CallIds : calls[c].proc.state = "running"}

\* C17: an external invocation whose promise is settled has no running subprocess:
\* the subprocess has closed, or it was never started; so when every call made so
\* far is settled no subprocess is running.
C17_NoLiveSubprocess ==
  /\ \A c \in CallIds :
       External(calls[c]) /\ calls[c].outcome # Pending
       => /\ calls[c].proc.state \in {"closed", "errored"}
          /\ calls[c].proc.state = "errored" => ~calls[c].proc.started
  /\ (\A c \in CallIds : Started(calls[c]) => calls[c].outcome # Pending) => Live = {}

C17_Witness ==
  /\ \A c \in CallIds : External(calls[c]) /\ Settled(calls[c])
  /\ \E c, d \in CallIds :
       /\ calls[c].proc.state = "closed" /\ calls[c].proc.started
       /\ calls[c].outcome.st = "resolved"
       /\ calls[d].proc.state = "errored" /\ calls[d].outcome.st = "rejected"

\* the names of the events of a sequence, in order
Names(events) == [i \in 1..Len(events) |-> events[i].args[1]]

\* C18: a step that is a register call (the registry or its last events change, no
\* loadAll is recorded) leaves the registry holding the plugin it was given under
\* that plugin's name, in place of what the name held, every other in-process entry
\* and every external entry as before, and has emitted one event, pluginLoaded of
\* that name.
C18_RegisterFrame ==
  [][loads' = loads /\ <<plugins, externals, loaded>>' # <<plugins, externals, loaded>>
     => \E p \in RegisterPool :
          /\ DOMAIN plugins' = DOMAIN plugins \cup {p.name}
          /\ plugins'[p.name] = p
          /\ \A n \in DOMAIN plugins \ {p.name} : plugins'[n] = plugins[n]
          /\ externals' = externals
          /\ Len(loaded') = 1
          /\ loaded'[1].name = "pluginLoaded" /\ loaded'[1].args = <<p.name>>
          /\ Resolve(plugins', externals', p.name) = "internal"]_vars

\* the sample plugin that loadAll registered, replaced by a direct register
C18_Witness ==
  /\ loads # <<>>
  /\ "sample" \in DOMAIN loads[1].after[1] /\ loads[1].after[1]["sample"] = samplePlugin
  /\ "sample" \in DOMAIN plugins /\ plugins["sample"] = sampleRevised
  /\ "tool" \in DOMAIN plugins /\ "tool" \in DOMAIN externals
  /\ loaded = <<Loaded("sample", plugins, externals)>>

RECURSIVE LastNamed(_, _)
\* the last entry of list that has the name
LastNamed(list, name) ==
  IF list[Len(list)].name = name THEN list[Len(list)]
  ELSE LastNamed(SubSeq(list, 1, Len(list) - 1), name)

\* C19: a loadAll that read a manifest and ended well has left, for every name of the
\* manifest, the last entry of that name in the external map, and the last events it
\* emitted are one pluginLoaded per manifest entry, in manifest order, each emitted
\* when every name of the manifest was already resolvable.
C19_ManifestOrder ==
  \A i \in 1..Len(loads) :
    LET list == loads[i].tree.manifest.list
        ev == loads[i].events
        k == Len(ev) - Len(list)
    IN loads[i].tree.manifest.exists /\ loads[i].outcome.st = "resolved"
       => /\ k >= 0
          /\ \A j \in 1..Len(list) :
               /\ ev[k + j].name = "pluginLoaded" /\ ev[k + j].args = <<list[j].name>>
               /\ {list[m].name : m \in 1..Len(list)} \subseteq ev[k + j].resolvable
               /\ list[j].name \in DOMAIN loads[i].after[2]
               /\ loads[i].after[2][list[j].name] = LastNamed(list, list[j].name)
          /\ \A j \in 1..k : ev[j].args[1] \in DOMAIN loads[i].after[1]

C19_Witness ==
  \E i \in 1..Len(loads) :
    /\ loads[i].tree.manifest.list = ManifestTwice
    /\ Names(loads[i].events) = <<"tool", "ext", "tool", "ext">>
    /\ loads[i].after[2]["ext"].command = "node"
    /\ externals = loads[i].after[2]

\* the modules of a tree whose default export register is called with
Registered(tree) ==
  IF tree.exists
  THEN SelectSeq(tree.files,
                 LAMBDA f : IsModule(f) /\ f.imports /\ f.hasDefault /\ f.default.name # "")
  ELSE <<>>

\* C20: a loadAll given the plugin directory and manifest of an earlier loadAll, the
\* registry being as that one left it, leaves the registry as it found it, settles
\* as the earlier one did and emits pluginLoaded for the same names in the same
\* order; a loadAll that ends well emits one event per plugin module and one per
\* manifest entry.
C20_LoadTwice ==
  /\ \A i, j \in 1..Len(loads) :
       i < j /\ loads[j].tree = loads[i].tree /\ loads[j].before = loads[i].after
       => /\ loads[j].after = loads[i].after
          /\ loads[j].outcome = loads[i].outcome
          /\ Names(loads[j].events) = Names(loads[i].events)
  /\ \A i \in 1..Len(loads) :
       loads[i].outcome.st = "resolved"
       => Len(loads[i].events)
            = Len(Registered(loads[i].tree)) + Len(loads[i].tree.manifest.list)

C20_Witness ==
  /\ Len(loads) >= 2
  /\ loads[1].tree = loads[2].tree
  /\ loads[1].before # loads[1].after
  /\ loads[2].before = loads[1].after
  /\ Len(loads[2].events) = 4
  /\ loads[2].outcome.st = "resolved"
  /\ listeners # <<>>

\* a manifest entry that has the shape of a descriptor: a name and a command
WellFormed(d) == d.name # Absent /\ d.command # Absent

\* the manifest of a tree is there and is not JSON, or has an entry of another shape
Malformed(manifest) ==
  /\ manifest.exists
  /\ \/ ~manifest.json
     \/ \E j \in 1..Len(manifest.list) : ~WellFormed(manifest.list[j])

\* C21: a loadAll that got as far as a manifest that is not JSON, or that has an
\* entry without a name or a command, is rejected, and has put no entry of that
\* manifest in the external map.
C21_MalformedManifestFatal ==
  \A i \in 1..Len(loads) :
    Malformed(loads[i].tree.manifest) /\ Registered(loads[i].tree) = loads[i].tree.files
    => /\ loads[i].outcome.st = "rejected"
       /\ loads[i].after[2] = loads[i].before[2]

\* What of C21 the code keeps: a manifest that is not JSON makes loadAll fail with
\* the SyntaxError of JSON.parse, the external map being left as it was.
NotJSONIsFatal ==
  \A i \in 1..Len(loads) :
    /\ loads[i].tree.manifest.exists /\ ~loads[i].tree.manifest.json
    /\ Registered(loads[i].tree) = loads[i].tree.files
    => /\ loads[i].outcome = Rejected(Err("SyntaxError", UnexpectedToken, ""))
       /\ loads[i].after[2] = loads[i].before[2]

\* the modules of a tree whose import throws
Broken(tree) == {k \in 1..Len(tree.files) : IsModule(tree.files[k]) /\ ~tree.files[k].imports}

\* C22: a loadAll whose walk met a module that fails to import has still registered
\* the plugin of every other module of the walk, and has gone on to the manifest:
\* every entry of a manifest that is JSON is in the external map.
C22_ImportFailureSkipped ==
  \A i \in 1..Len(loads) :
    LET tree == loads[i].tree
    IN tree.exists /\ Broken(tree) # {}
       => /\ \A k \in 1..Len(Registered(tree)) :
               Registered(tree)[k].default.name \in DOMAIN loads[i].after[1]
          /\ tree.manifest.exists /\ tree.manifest.json
             => \A j \in 1..Len(tree.manifest.list) :
                  tree.manifest.list[j].name \in DOMAIN loads[i].after[2]

\* What the code does instead: the import error ends loadAll; the modules before the
\* failing one are registered, those after it and the manifest are not read.
ImportFailureEndsLoad ==
  \A i \in 1..Len(loads) :
    LET tree == loads[i].tree
        first == CHOOSE k \in Broken(tree) : \A m \in Broken(tree) : k <= m
    IN tree.exists /\ Broken(tree) # {}
       => /\ loads[i].outcome = Rejected(Error(ImportFailed))
          /\ loads[i].after[2] = loads[i].before[2]
          /\ Len(loads[i].events) = Len(Registered(Tree(TRUE, SubSeq(tree.files, 1, first), NoManifest)))

\* C23: a loadAll on a base directory without a plugin directory resolves, leaves
\* the registry as it was and emits nothing; a loadAll whose plugin directory has no
\* manifest (and no module that fails to import) resolves, leaves the external map
\* as it was and emits pluginLoaded for the in-process plugins only.
C23_MissingIsNoError ==
  \A i \in 1..Len(loads) :
    LET tree == loads[i].tree
    IN /\ ~tree.exists
          => /\ loads[i].outcome = Resolved(Undefined)
             /\ loads[i].after = loads[i].before
             /\ loads[i].events = <<>>
       /\ tree.exists /\ ~tree.manifest.exists /\ Broken(tree) = {}
          => /\ loads[i].outcome = Resolved(Undefined)
             /\ loads[i].after[2] = loads[i].before[2]
             /\ Names(loads[i].events)
                  = [k \in 1..Len(Registered(tree)) |-> Registered(tree)[k].default.name]

\* a loadAll without a manifest that registered the sample plugin, then one without
\* a plugin directory, the registry holding entries of both kinds
C23_Witness ==
  \E i, j \in 1..Len(loads) :
    /\ loads[i].tree.exists /\ ~loads[i].tree.manifest.exists
    /\ Names(loads[i].events) = <<"sample">>
    /\ i < j /\ ~loads[j].tree.exists
    /\ loads[j].before[1] # EmptyMap
    /\ loads[j].outcome = Resolved(Undefined)

\* the listeners of an emit that were registered for its event, in registration order
Subscribed(e) == SelectSeq([i \in 1..Len(e.listeners) |-> i],
                           LAMBDA i : e.listeners[i].event = e.event)

\* C24: an emit has invoked every listener registered for its event at the time,
\* once each, in registration order, with the arguments of the emit, and no listener
\* of another event.
C24_EmitInvokesAll ==
  bus # NoEmit
  => bus.invoked = [k \in 1..Len(Subscribed(bus)) |->
                      [listener |-> Subscribed(bus)[k], args |-> bus.args]]

\* What the code does: the listeners of the event are invoked in registration order
\* up to the first one that throws, whose exception ends the emit; all of them when
\* none throws. No listener is invoked twice, none of another event.
EmitUntilThrow ==
  bus # NoEmit
  => LET subs == Subscribed(bus)
         n == Len(bus.invoked)
     IN /\ n <= Len(subs)
        /\ \A k \in 1..n : bus.invoked[k] = [listener |-> subs[k], args |-> bus.args]
        /\ \A k \in 1..(n - 1) : ~bus.listeners[subs[k]].throws
        /\ n < Len(subs) => bus.listeners[subs[n]].throws /\ bus.threw
        /\ bus.threw <=> (n > 0 /\ bus.listeners[subs[n]].throws)

\* C30: an in-process execute whose callable returned a value, or a promise that was
\* fulfilled, resolves with that value, whatever the pluginExecuted listeners do.
C30_ListenerFailureIsolated ==
  \A c \in CallIds :
    /\ calls[c].own /\ calls[c].ret.kind \in {"return", "resolve"}
    /\ calls[c].ret.emits = <<>> /\ Settled(calls[c])
    => calls[c].outcome = Resolved(calls[c].ret.v)

\* What the code does: the emit of line 54 is inside execute, so when a
\* pluginExecuted listener throws the call is rejected with the listener's exception
\* and the callable's value is lost; it resolves with that value otherwise.
ListenerFailureRejects ==
  [][\A c \in CallIds :
       /\ calls[c].pc = "awaitFn" /\ calls[c].ret.kind \in {"return", "resolve"}
       /\ Settled(calls'[c])
       => calls'[c].outcome = IF EmitThrows(listeners, "pluginExecuted")
                              THEN Rejected(Error(ListenerFailed))
                              ELSE Resolved(calls[c].ret.v)]_vars

\* the server has run loadAll and gone on
Up == server.pc \in {"loaded", "routes", "ws", "listening"}

\* C25: once the server has run its loadAll, the broadcaster has sent a pluginLoaded
\* message for every pluginLoaded event that loadAll emitted.
C25_StartupEventsBroadcast ==
  Up => \A j \in 1..Len(loads[1].events) :
          \E k \in 1..Len(server.sent) :
            server.sent[k] = [type |-> "pluginLoaded", args |-> loads[1].events[j].args]

\* What the code does: the broadcaster subscribes after loadAll is over, and nothing
\* registers a plugin later, so it never sends a pluginLoaded message; the first
\* message it sends is started.
NoPluginLoadedBroadcast ==
  /\ \A k \in 1..Len(server.sent) : server.sent[k].type # "pluginLoaded"
  /\ server.pc = "listening" => server.sent # <<>> /\ server.sent[1].type = "started"
  /\ server.pc \in {"off", "loaded", "routes", "exited"} => listeners = <<>>

\* the member of an object that has the key; undefined when there is none
Member(v, key) ==
  IF \E i \in 1..Len(v.keys) : v.keys[i] = key
  THEN v.kids[CHOOSE i \in 1..Len(v.keys) : v.keys[i] = key]
  ELSE Undefined

\* the JSON value a client reads from a response
Body(response) == JSONparse(response.body).v

\* C26: a request that reached the handler of POST /mcp/execute has had no response
\* while its execute call is pending and one response once the handler has gone on:
\* {ok: true, result: v} when execute resolved to v, {ok: false, error: m} when it
\* was rejected with an error of message m; and the server is still up.
C26_OneResponse ==
  \A c \in CallIds :
    LET r == requests[c]
    IN /\ r.state = "waiting" => r.responses = <<>>
       /\ r.state = "done"
          => /\ Len(r.responses) = 1
             /\ JSONparse(r.responses[1].body).ok
             /\ Body(r.responses[1]).t = "object"
             /\ calls[c].outcome.st = "resolved"
                => /\ r.responses[1].status = 200
                   /\ Body(r.responses[1]).keys \in {<<<<"o", "k">>>>,
                                                      <<<<"o", "k">>, <<"r", "e", "s", "u", "l", "t">>>>}
                   /\ Member(Body(r.responses[1]), <<"o", "k">>) = JTrue
                   /\ Member(Body(r.responses[1]), <<"r", "e", "s", "u", "l", "t">>)
                        = calls[c].outcome.v
             /\ calls[c].outcome.st = "rejected"
                => /\ r.responses[1].status = 500
                   /\ Body(r.responses[1]).keys = <<<<"o", "k">>, <<"e", "r", "r", "o", "r">>>>
                   /\ Member(Body(r.responses[1]), <<"o", "k">>) = JFalse
                   /\ Member(Body(r.responses[1]), <<"e", "r", "r", "o", "r">>)
                        = JStr(calls[c].outcome.err.message)
       /\ r.state # "none" => server.pc = "listening" /\ calls[c].pc # "idle"

\* after an in-process call that was broadcast, a request answered with the error of
\* a subprocess that could not be started
C26_Witness ==
  \E c \in CallIds :
    /\ \E k \in 1..Len(server.sent) : server.sent[k].type = "pluginExecuted"
    /\ requests[c].state = "done"
    /\ calls[c].outcome = Rejected(SpawnError)
    /\ requests[c].responses[1].status = 500

\* an executeTask call that was given a plugin service and found a task with a
\* plugin and an action
Runnable(job) ==
  job.service /\ job.found.exists /\ job.found.plugin # "" /\ job.found.action # <<>>

\* the executeTask call that ran last is over
Last(c) == jobs[c].pc = "done" /\ \A d \in CallIds : d > c => jobs[d].pc = "idle"

\* C27: an executeTask call on a task with a plugin and an action, given the plugin
\* service, makes one execute call, with the task's plugin, action and payload.
\* When it is over the stored document has what it wrote: after a resolved execute
\* the status is completed and the result is the value, and the call resolves; after
\* a rejected one the error is the message of the rejection, retryCount is one more
\* than it was, the call is rejected with the same error, and the status is pending
\* with scheduledAt RetryDelay after the time read if retryCount < maxRetries,
\* failed with scheduledAt as it was otherwise.
C27_TaskOutcomePersisted ==
  \A c \in CallIds :
    LET job == jobs[c]
        call == calls[c]
    IN Runnable(job)
       => /\ job.executed = (IF job.pc \in {"found", "begun"} THEN 0 ELSE 1)
          /\ job.executed = 1
             => /\ call.pluginName = job.found.plugin
                /\ call.action = job.found.action
                /\ call.payload = job.found.payload
          /\ job.pc = "done"
             => /\ Settled(call)
                /\ Last(c) => task = job.doc
                /\ job.doc.maxRetries = job.found.maxRetries
                /\ call.outcome.st = "resolved"
                   => /\ job.outcome = "resolved"
                      /\ job.doc.status = "completed"
                      /\ job.doc.result = call.outcome.v
                      /\ job.doc.retryCount = job.found.retryCount
                /\ call.outcome.st = "rejected"
                   => /\ job.outcome = "rejected" /\ job.err = call.outcome.err
                      /\ job.doc.error = JStr(call.outcome.err.message)
                      /\ job.doc.retryCount = job.found.retryCount + 1
                      /\ IF job.doc.retryCount < job.doc.maxRetries
                         THEN /\ job.doc.status = "pending"
                              /\ job.now \in Times
                              /\ job.doc.scheduledAt = job.now + RetryDelay
                         ELSE /\ job.doc.status = "failed"
                              /\ job.doc.scheduledAt = job.found.scheduledAt

\* a task that failed twice: rescheduled the first time, failed for good the second
C27_Witness ==
  /\ MaxCalls >= 2
  /\ Runnable(jobs[1]) /\ Runnable(jobs[2]) /\ Last(2)
  /\ jobs[1].doc.status = "pending" /\ jobs[1].doc.scheduledAt = 2000 + RetryDelay
  /\ jobs[1].err = Error(Boom)
  /\ task.status = "failed" /\ task.retryCount = 2 /\ task.maxRetries = 2
  /\ task.error = JStr(Boom)
  /\ jobs[2].outcome = "rejected"

RECURSIVE Executions(_)
\* the execute calls the executeTask calls 1..c have made
Executions(c) == IF c = 0 THEN 0 ELSE jobs[c].executed + Executions(c - 1)

\* C28: the task's plugin has been executed at most maxRetries times by the
\* executeTask calls made so far (each given the plugin service), and its retryCount
\* is at most maxRetries.
C28_RetriesBounded ==
  /\ task.exists /\ task.plugin # ""
  /\ \A c \in CallIds : jobs[c].pc # "idle" => jobs[c].service
  => /\ Executions(MaxCalls) <= task.maxRetries
     /\ task.retryCount <= task.maxRetries

\* What the code does: executeTask runs the task whatever its status and retryCount
\* are, so every call on a task whose plugin fails adds one to retryCount.
EveryCallRuns ==
  \A c \in CallIds :
    Runnable(jobs[c]) /\ jobs[c].pc = "done" /\ jobs[c].outcome = "rejected"
    => jobs[c].executed = 1 /\ jobs[c].doc.retryCount = jobs[c].found.retryCount + 1

C31_OnlyLifecycleEvents ==
  \A c \in CallIds :
    LET call == calls[c]
    IN /\ \A i \in 1..Len(call.emitted) :
            /\ call.emitted[i] = Event("pluginExecuted", call.pluginName, call.action)
            /\ call.ret.kind \in {"return", "resolve"}
       /\ Len(call.emitted) <= 1

\* What the code does: ctx.emit(event, data) is this.events.emit('pluginExecuted',
\* pluginName, event), so the events of a call are one pluginExecuted(pluginName,
\* event) per ctx.emit of the callable, data being dropped, followed, when the
\* callable succeeded, by the dispatcher's pluginExecuted(pluginName, action).
CtxEmitIsPluginExecuted ==
  \A c \in CallIds :
    LET call == calls[c]
        n == Len(call.ret.emits)
    IN call.inPlugins /\ call.pc \in {"awaitFn", "settled"} /\ call.ret.kind # "none"
       => /\ Len(call.emitted) \in {n, n + 1}
          /\ \A i \in 1..n : call.emitted[i] = call.ret.emits[i]
          /\ \A i \in 1..n : call.emitted[i].name = "pluginExecuted"
                               /\ call.emitted[i].args[1] = call.pluginName
          /\ Len(call.emitted) = n + 1
             => /\ call.emitted[n + 1] = Event("pluginExecuted", call.pluginName, call.action)
                /\ call.outcome.st = "resolved"

\* C32: routes are mounted, the server listens and a request reaches execute only
\* when the one loadAll of the startup has resolved, and from then on the registry is
\* what that loadAll left.
C32_LoadedBeforeServing ==
  /\ server.pc \in {"routes", "ws", "listening"} \/ (\E c \in CallIds : Started(calls[c]))
     => /\ Len(loads) = 1
        /\ loads[1].outcome = Resolved(Undefined)
        /\ <<plugins, externals>> = loads[1].after
  /\ \A c \in CallIds :
       Started(calls[c]) \/ requests[c].state # "none" => server.pc = "listening"
  /\ server.pc = "exited" => \A c \in CallIds : requests[c].state = "none"

\* a request being served by a subprocess, the registry as the startup loadAll
\* filled it
C32_Witness ==
  \E c \in CallIds :
    /\ requests[c].state = "waiting" /\ calls[c].pc = "awaitProc"
    /\ loads[1].after[1] # EmptyMap /\ loads[1].after[2] # EmptyMap
    /\ calls[c].desc = loads[1].after[2][calls[c].pluginName]


\* C33: an execute that ran a subprocess is resolved only if the subprocess closed
\* with the exit code 0; when a started subprocess was ended by a signal (the close
\* event carries null) the execute is rejected with an Error whose message is the
\* captured stderr, or 'external plugin failed' when stderr is empty, whatever
\* the subprocess wrote to stdout.
C33_OnlyExitZeroResolves ==
  \A c \in CallIds :
    LET call == calls[c]
        text == Flatten(call.errChunks)
    IN /\ call.spawned > 0 /\ call.outcome.st = "resolved"
          => call.proc.state = "closed" /\ call.proc.code = JNum(0)
       /\ call.proc.state = "closed" /\ call.proc.started /\ call.proc.code = Null
          => call.outcome =
               Rejected(Error(IF text # <<>> THEN text ELSE ExternalPluginFailed))

C33_Witness ==
  \E c \in CallIds :
    /\ calls[c].proc.state = "closed" /\ calls[c].proc.started
    /\ calls[c].proc.code = Null
    /\ JSONparse(Stdout(calls[c])).ok
    /\ calls[c].errChunks = <<>>
    /\ calls[c].outcome = Rejected(Error(ExternalPluginFailed))


\* C34: the chunks of stdout are kept in the order they arrived (a step only ever
\* adds one chunk behind the earlier ones); an execute that ran a subprocess is
\* resolved in the step of the close event and in no other, with the value all the
\* chunks received until then, joined in that order and trimmed, decode to (or
\* with that text when it is not JSON); and after the settlement no chunk is
\* added and the outcome does not change.
C34_AllChunksInOrder ==
  [][\A c \in CallIds :
       LET a == calls[c]
           b == calls'[c]
           out == trim(Flatten(a.chunks))
       IN /\ a.pc = "awaitProc" /\ b.pc = "awaitProc"
             => \/ b.chunks = a.chunks
                \/ /\ Len(b.chunks) = Len(a.chunks) + 1
                   /\ SubSeq(b.chunks, 1, Len(a.chunks)) = a.chunks
          /\ a.pc = "awaitProc" /\ b.outcome.st = "resolved"
             => /\ a.proc.state = "running" /\ b.proc.state = "closed"
                /\ b.chunks = a.chunks
                /\ b.outcome.v = IF JSONparse(out).ok THEN JSONparse(out).v ELSE JStr(out)
          /\ a.pc = "settled" /\ a.spawned > 0 /\ b.pc = "settled"
             => b.chunks = a.chunks /\ b.outcome = a.outcome
    ]_vars

C34_Witness ==
  \E c \in CallIds :
    /\ calls[c].pc = "settled" /\ calls[c].proc.state = "closed"
    /\ calls[c].proc.command = "python"
    /\ calls[c].chunks = <<<<"[", "1", ",">>, <<" ", "2", "]", "\n">>>>
    /\ calls[c].outcome = Resolved(JArr(<<JNum(1), JNum(2)>>))


\* C35: a register call made while an in-process execute waits for its action
\* leaves the call as it is, and the call goes on as if the registry had not
\* changed: the callable is the one the registry held for the plugin name when
\* the call began, a rejecting callable rejects the call, and otherwise
\* pluginExecuted is emitted with the call's own plugin and action names and the
\* call resolves with what that callable returned, whatever the registry holds
\* for the name by then.
C35_OverwriteLeavesCall ==
  [][\A c \in CallIds :
       LET a == calls[c]
           b == calls'[c]
       IN /\ a.pc = "idle" /\ b.pc = "awaitFn"
             => /\ b.fn = ActionLookup(plugins[b.pluginName], b.action)
                /\ \E r \in Invoke(b.fn, b.payload) : b.ret.kind = r.kind /\ b.ret.v = r.v
          /\ a.pc = "awaitFn" /\ plugins' # plugins => b = a
          /\ a.pc = "awaitFn" /\ b.pc = "settled"
             => /\ b.pluginName = a.pluginName /\ b.action = a.action /\ b.fn = a.fn
                /\ IF a.ret.kind = "reject"
                   THEN b.outcome = Rejected(a.ret.err) /\ b.emitted = a.emitted
                   ELSE /\ b.outcome = Resolved(a.ret.v)
                        /\ b.emitted = Append(a.emitted,
                                              Event("pluginExecuted", a.pluginName, a.action))
                /\ a.fn = "echo" => b.outcome = Resolved(a.payload)
    ]_vars

C35_Witness ==
  \E c \in CallIds :
    /\ Settled(calls[c]) /\ calls[c].pluginName = "sample" /\ calls[c].fn = "echo"
    /\ plugins["sample"] = sampleRevised
    /\ ActionLookup(plugins["sample"], calls[c].action) = "undefined"
    /\ calls[c].outcome = Resolved(ObjX1)
    /\ calls[c].emitted = <<Event("pluginExecuted", "sample", echo)>>


\* C36: a loadAll that was rejected at the manifest (its walk of the modules ended
\* well and JSON.parse threw on the manifest) has left every plugin the walk
\* registered in the in-process map, resolvable as an in-process plugin with its
\* actions, has emitted pluginLoaded for each of them, in the order of the walk and
\* at a moment when the name was resolvable, has kept every name that was
\* registered before it, and none of these names leaves the registry afterwards.
C36_NoRollback ==
  \A i \in 1..Len(loads) :
    LET tree == loads[i].tree
        reg == Registered(tree)
    IN loads[i].outcome = Rejected(Err("SyntaxError", UnexpectedToken, ""))
       => /\ tree.manifest.exists /\ ~tree.manifest.json
          /\ DOMAIN loads[i].before[1] \subseteq DOMAIN loads[i].after[1]
          /\ Len(loads[i].events) = Len(reg)
          /\ \A k \in 1..Len(reg) :
               LET p == reg[k].default
               IN /\ p.name \in DOMAIN loads[i].after[1]
                  /\ loads[i].after[1][p.name].name = p.name
                  /\ (\A j \in (k + 1)..Len(reg) : reg[j].default.name # p.name)
                     => loads[i].after[1][p.name] = p
                  /\ Resolve(loads[i].after[1], loads[i].after[2], p.name) = "internal"
                  /\ loads[i].events[k].name = "pluginLoaded"
                  /\ loads[i].events[k].args = <<p.name>>
                  /\ p.name \in loads[i].events[k].resolvable
                  /\ p.name \in DOMAIN plugins

C36_Witness ==
  \E i \in 1..Len(loads) :
    /\ loads[i].outcome.st = "rejected" /\ loads[i].outcome.err.name = "SyntaxError"
    /\ loads[i].before[1] = EmptyMap
    /\ loads[i].after[1] = MapSet(EmptyMap, "sample", samplePlugin)
    /\ Names(loads[i].events) = <<"sample">>
    /\ ActionLookup(plugins["sample"], echo) = "echo"


\* the executeTask calls whose plugin execution failed
FailedExecutions ==
  {c \in CallIds : jobs[c].executed = 1 /\ calls[c].pc = "settled"
                    /\ calls[c].outcome.st = "rejected"}

\* C37: when no executeTask call is under way, the stored retryCount of the task is
\* the number of plugin executions of the task that failed, the calls having been
\* made one after the other or at the same time.
C37_NoLostIncrement ==
  (\A c \in CallIds : jobs[c].pc \in {"idle", "done"})
  => task.retryCount = Cardinality(FailedExecutions)

\* What the code keeps: every call that failed saved the retryCount it had loaded
\* plus one, so the stored count is at most the number of failures, and at least
\* one once a call has failed.
RetryCountAtMostFailures ==
  (\A c \in CallIds : jobs[c].pc \in {"idle", "done"})
  => /\ task.retryCount <= Cardinality(FailedExecutions)
     /\ FailedExecutions # {} => task.retryCount >= 1
     /\ \A c \in FailedExecutions : jobs[c].doc.retryCount = jobs[c].found.retryCount + 1


\* C38: the requests of one key that were let through since any moment are at most
\* the capacity plus one per second elapsed since that moment (the capacity alone
\* while no time elapses, the capacity plus t after t whole seconds), and a request
\* changes no bucket but the one of its own key.
C38_BurstAndWindow ==
  /\ [](limiter.window.key # ""
          => /\ limiter.window.admitted * Thousand
                  <= capacity * Thousand
                     + (limiter.now - limiter.window.start) * refillPerSec
             /\ limiter.now = limiter.window.start => limiter.window.admitted <= capacity
             /\ \A t \in 0..MaxElapsed :
                  limiter.now - limiter.window.start <= t * Thousand
                  => limiter.window.admitted <= capacity + t * refillPerSec)
  /\ [][limiter'.buckets # limiter.buckets
         => \A k \in DOMAIN limiter.buckets \ {limiter'.last.key} :
              /\ k \in DOMAIN limiter'.buckets
              /\ limiter'.buckets[k] = limiter.buckets[k]]_vars

C38_Witness ==
  /\ limiter.window.key = "10.0.0.1"
  /\ limiter.now = limiter.window.start + Thousand
  /\ limiter.window.admitted = capacity + 1
  /\ limiter.last = [key |-> "10.0.0.1", admitted |-> FALSE, status |-> 429,
                     remaining |-> 0, retryAfter |-> 1]
  /\ "10.0.0.2" \in DOMAIN limiter.buckets
  /\ limiter.buckets["10.0.0.2"] =
       [tokens |-> (capacity - 1) * Thousand, lastRefillMs |-> limiter.window.start]


\* the tokens the bucket of a key holds once refilled at the time of the clock: a
\* full bucket for a key that has none yet
Available(key) ==
  IF key \in DOMAIN limiter.buckets
  THEN LET b == limiter.buckets[key]
           elapsed == limiter.now - b.lastRefillMs
       IN IF elapsed > 0
          THEN Min(capacity * Thousand, b.tokens + elapsed * refillPerSec)
          ELSE b.tokens
  ELSE capacity * Thousand

\* C39: the token count of every bucket is at least 0 and at most the capacity at
\* all times; and in every step in which the middleware handles a request (the
\* clock and the observer stay as they are), the request is let through exactly
\* when its key's bucket, refilled, holds one whole token or more, the bucket is
\* left with the refilled count less one when the request is let through and with
\* the refilled count when it is turned away with 429.
C39_TokenAccounting ==
  /\ [](\A k \in DOMAIN limiter.buckets :
          /\ limiter.buckets[k].tokens >= 0
          /\ limiter.buckets[k].tokens <= capacity * Thousand
          /\ limiter.buckets[k].lastRefillMs <= limiter.now)
  /\ [][limiter' # limiter /\ limiter'.now = limiter.now
           /\ limiter'.window.key = limiter.window.key
         => LET k == limiter'.last.key
            IN /\ k \in DOMAIN limiter'.buckets
               /\ limiter'.last.admitted <=> Available(k) >= Thousand
               /\ limiter'.last.admitted
                  => /\ limiter'.buckets[k].tokens = Available(k) - Thousand
                     /\ limiter'.last.status = 0
               /\ ~limiter'.last.admitted
                  => /\ limiter'.buckets[k].tokens = Available(k)
                     /\ limiter'.last.status = 429
                     /\ limiter'.last.retryAfter >= 1]_vars

C39_Witness ==
  /\ limiter.last.key = "10.0.0.2" /\ ~limiter.last.admitted
  /\ limiter.last.status = 429
  /\ limiter.buckets["10.0.0.2"] = [tokens |-> 500, lastRefillMs |-> limiter.now]
  /\ limiter.now > 0


\* C40: once disconnect() has been called the client schedules no reconnect and
\* makes no new socket, and the reconnect attempts counted since the last open
\* are at most maxReconnectAttempts.
C40_DisconnectStopsReconnect ==
  /\ client.disconnected => client.scheduled = 0 /\ client.opened = 0
  /\ client.reconnectAttempts <= maxReconnectAttempts

\* What the code keeps: the attempts counted since the last open never exceed the
\* maximum, a reconnect is scheduled only by the 'close' of a socket, and
\* disconnect() leaves this.ws null until a reconnect replaces it.
ReconnectsAreCounted ==
  /\ client.reconnectAttempts <= maxReconnectAttempts
  /\ client.timers <= client.reconnectAttempts
       \/ \E i \in 1..Len(client.sockets) : client.sockets[i] = "open"
  /\ client.disconnected /\ client.opened = 0 => client.ws = 0

=============================================================================
